---- MODULE Spec2Model ----
(***************************************************************************)
(* Model of the uatiari review pipeline: the LangGraph workflow            *)
(* (src/src/uatiari/graph/workflow.py), its five nodes                     *)
(* (src/src/uatiari/graph/nodes.py), the git collaborator                  *)
(* (src/src/uatiari/tools/git_tools.py), the skills                       *)
(* (src/src/uatiari/skills_manager.py, prompts/skills/laravel.py), the     *)
(* approval prompt and report printer (src/src/logger.py) and the CLI      *)
(* driver (src/src/uatiari/cli.py).                                        *)
(*                                                                         *)
(* Spec is a run of the pipeline, FairSpec the run under its scheduling in *)
(* a sample of repositories, LibSpec the collaborators called on their own.*)
(*                                                                         *)
(* Python dicts are functions over string keys, text is a sequence of      *)
(* one-character strings (paths, input lines) or of tokens (model          *)
(* responses), JSON values are tagged records, and a Python float that is  *)
(* the quotient of two line counts is a reduced fraction [num, den].       *)
(***************************************************************************)
EXTENDS Integers, Sequences, FiniteSets, TLC

VARIABLES
    pc,         \* node about to run, "END" (graph returned) or "exited"
    state,      \* the ReviewState dict threaded through the nodes
    ran,        \* nodes entered so far, in order
    gate,       \* what ask_approval returned: "none", "true" or "false"
    reprompts,  \* invalid answers given at the approval prompt so far
    fault,      \* the failures met so far: "fetch", "plan_llm", "review_llm", "invalid_json"
    reply,      \* what llm.invoke returned in the review stage (NoText before)
    outcome,    \* "running", "returned", "interrupted" or "exception"
    exit_code,  \* argument of sys.exit, NoCode until the process exits
    manager,    \* SkillManager.active_skills of the one SkillManager instance
    call        \* the last call seen on a collaborator: its name, input and result

\* The variables of a pipeline run, and those of the library calls
run_vars == <<pc, state, ran, gate, reprompts, fault, reply, outcome, exit_code>>
lib_vars == <<manager, call>>
vars == <<pc, state, ran, gate, reprompts, fault, reply, outcome, exit_code, manager, call>>

----------------------------------------------------------------------------
(* Bounds of the model *)

MaxFiles == 2        \* files in one change set
MaxLines == 3        \* added lines per file
MaxDeleted == 1      \* deleted lines per file
MaxReprompts == 1    \* invalid answers before the prompt gets a valid one

----------------------------------------------------------------------------
(* Python values *)

None == "None"
NoCode == 0 - 1

\* bool(x) of an Optional[str]
Truthy(s) == s # None /\ s # ""

EmptyDict == [k \in {} |-> 0]

\* d.get(k, default)
Get(d, k, default) == IF k \in DOMAIN d THEN d[k] ELSE default

\* {**d, k: v}   and   d[k] = v
Put(d, k, v) == [x \in (DOMAIN d) \cup {k} |-> IF x = k THEN v ELSE d[x]]

\* {**d, **e}
Merge(d, e) == [x \in (DOMAIN d) \cup (DOMAIN e) |-> IF x \in DOMAIN e THEN e[x] ELSE d[x]]

----------------------------------------------------------------------------
(* Text as sequences of one-character strings *)

\* str.lower() on the letters the model's texts use
Lower(c) ==
    CASE c = "T" -> "t" [] c = "E" -> "e" [] c = "S" -> "s"
      [] c = "Y" -> "y" [] c = "N" -> "n" [] c = "O" -> "o"
      [] c = "L" -> "l" [] c = "A" -> "a" [] c = "R" -> "r" [] c = "V" -> "v"
      [] OTHER -> c

LowerText(t) == [i \in 1..Len(t) |-> Lower(t[i])]

\* sub in t
Contains(t, sub) ==
    \E i \in 1..(Len(t) - Len(sub) + 1) : SubSeq(t, i, i + Len(sub) - 1) = sub

\* t.startswith(p)  and  t.endswith(p)
StartsWith(t, p) == Len(t) >= Len(p) /\ SubSeq(t, 1, Len(p)) = p
EndsWith(t, p) == Len(t) >= Len(p) /\ SubSeq(t, Len(t) - Len(p) + 1, Len(t)) = p

\* The paths a change set may touch, in git's (sorted) output order:
\* "a.py", "latest.php", "tEsT_a.py", "tes/t.py"
PathList == <<
    <<"a", ".", "p", "y">>,
    <<"l", "a", "t", "e", "s", "t", ".", "p", "h", "p">>,
    <<"t", "E", "s", "T", "_", "a", ".", "p", "y">>,
    <<"t", "e", "s", "/", "t", ".", "p", "y">> >>

NPaths == Len(PathList)

\* "test"
TestWord == <<"t", "e", "s", "t">>

----------------------------------------------------------------------------
(* The git collaborator: what the three queries of the fetch stage see *)

LineCounts == [added : 0..MaxLines, deleted : 0..MaxDeleted]

\* A change set: the changed paths (indices into PathList) with their numstat counts
ChangeSets ==
    UNION { [S -> LineCounts] : S \in { T \in SUBSET (1..NPaths) : Cardinality(T) <= MaxFiles } }

\* Indices of a set in increasing order
RECURSIVE SortedIdx(_)
SortedIdx(S) ==
    IF S = {} THEN <<>>
    ELSE LET m == CHOOSE x \in S : \A y \in S : x <= y
         IN <<m>> \o SortedIdx(S \ {m})

GitEnvs == [repo : BOOLEAN, base : BOOLEAN, branch : BOOLEAN, changes : ChangeSets]

ErrNotRepo == "Not in a git repository. Please run from within a git repo."
ErrNoBase == "Base branch 'main' does not exist."
ErrNoBranch == "Branch 'feature' does not exist."
ErrNoDiff == "No differences found between 'main' and 'feature'."
ErrNoFiles == "No files changed between 'main' and 'feature'."

Ok(v) == [ok |-> TRUE, value |-> v]
Raise(kind, msg) == [ok |-> FALSE, exc |-> kind, msg |-> msg]

\* The git commands of _check_git_repository and validate_branch_exists, and
\* the three diff commands
GitCmd == [
    git_dir |-> "rev-parse --git-dir",
    verify_base |-> "rev-parse --verify main",
    verify_branch |-> "rev-parse --verify feature",
    get_diff |-> "diff main...feature",
    get_changed_files |-> "diff --name-only main...feature",
    get_diff_stats |-> "diff --numstat main...feature" ]

\* A validation that looks at the feature branch before the base branch
ValidateBranchFirst(env) ==
    IF ~env.repo THEN ErrNotRepo
    ELSE IF ~env.branch THEN ErrNoBranch
    ELSE IF ~env.base THEN ErrNoBase
    ELSE None

\* _check_git_repository, then validate_branch_exists(base), then (branch):
\* the message of the first check that fails, None when all pass
Validate(env) ==
    IF ~env.repo THEN ErrNotRepo
    ELSE IF ~env.base THEN ErrNoBase
    ELSE IF ~env.branch THEN ErrNoBranch
    ELSE None

\* list_repository_files: what `git ls-tree` may list (the paths "artisan",
\* "app/a.php", "a.py"), or a failure, which its caller turns into []
RepoListings == {
    <<>>,
    << <<"a", "r", "t", "i", "s", "a", "n">> >>,
    << <<"a", "p", "p", "/", "a", ".", "p", "h", "p">> >>,
    << <<"a", ".", "p", "y">> >> }

----------------------------------------------------------------------------
(* JSON values: json.loads output and what the review stage builds *)

JObj(f) == [kind |-> "dict", fields |-> f]
JStr(t) == [kind |-> "str", text |-> t]
JInt(n) == [kind |-> "int", int |-> n]
JList(items) == [kind |-> "list", items |-> items]

RECURSIVE GCD(_, _)
GCD(a, b) == IF b = 0 THEN a ELSE GCD(b, a % b)

\* The float n/d (d > 0), as a reduced fraction
JFloat(n, d) ==
    LET g == GCD(n, d) IN [kind |-> "float", num |-> n \div g, den |-> d \div g]

IsDict(v) == v.kind = "dict"

\* The documents a review response may carry, each one token of the response text
DocFull == JObj([
    overall |-> JObj([verdict |-> JStr("APPROVE")]),
    test_analysis |-> JObj([
        production_lines |-> JInt(99), test_lines |-> JInt(98),
        ratio |-> JFloat(9, 1), verdict |-> JStr("INSUFFICIENT"),
        notes |-> JStr("model notes")])])
DocNoAnalysis == JObj([overall |-> JObj([verdict |-> JStr("BLOCK")])])
DocAnalysisText == JObj([test_analysis |-> JStr("n/a")])
DocList == JList(<<>>)
DocEmpty == JObj(EmptyDict)

Docs == [tok \in {"{full}", "{plain}", "{text}", "[]", "{}"} |->
    CASE tok = "{full}" -> DocFull
      [] tok = "{plain}" -> DocNoAnalysis
      [] tok = "{text}" -> DocAnalysisText
      [] tok = "[]" -> DocList
      [] tok = "{}" -> DocEmpty]

----------------------------------------------------------------------------
(* Response text: a sequence of tokens *)

\* "ws" is a blank, "nl" a newline, Fence a code-fence marker (three
\* backquotes), "json" the language tag after it, "prose" text that is no
\* JSON, and a token of DOMAIN Docs a whole JSON document.
Fence == "FENCE"
IsSpace(tok) == tok \in {"ws", "nl", "tab", " "}

\* str.strip()
RECURSIVE LStrip(_)
LStrip(t) == IF t # <<>> /\ IsSpace(Head(t)) THEN LStrip(Tail(t)) ELSE t
RECURSIVE RStrip(_)
RStrip(t) == IF t # <<>> /\ IsSpace(t[Len(t)]) THEN RStrip(SubSeq(t, 1, Len(t) - 1)) ELSE t
Strip(t) == RStrip(LStrip(t))

\* str.split("\n")
RECURSIVE SplitLines(_)
SplitLines(t) ==
    IF \A i \in 1..Len(t) : t[i] # "nl" THEN <<t>>
    ELSE LET k == CHOOSE i \in 1..Len(t) : t[i] = "nl" /\ \A j \in 1..(i - 1) : t[j] # "nl"
         IN <<SubSeq(t, 1, k - 1)>> \o SplitLines(SubSeq(t, k + 1, Len(t)))

\* "\n".join(lines)
RECURSIVE JoinLines(_)
JoinLines(lines) ==
    IF lines = <<>> THEN <<>>
    ELSE IF Len(lines) = 1 THEN lines[1]
    ELSE lines[1] \o <<"nl">> \o JoinLines(Tail(lines))

\* A test that takes only a line that is the bare marker for a fence line
LineIsFenceOnly(line) == line = <<Fence>>

LineStartsWithFence(line) == line # <<>> /\ Head(line) = Fence

\* A loop that keeps a line only inside a fenced block
RECURSIVE ScanLinesInsideOnly(_, _)
ScanLinesInsideOnly(lines, in_json) ==
    IF lines = <<>> THEN <<>>
    ELSE IF LineStartsWithFence(Head(lines)) THEN ScanLinesInsideOnly(Tail(lines), ~in_json)
    ELSE IF in_json
         THEN <<Head(lines)>> \o ScanLinesInsideOnly(Tail(lines), in_json)
         ELSE ScanLinesInsideOnly(Tail(lines), in_json)

\* The loop of nodes.py 195-200 over lines[i..], with the flag in_json
RECURSIVE ScanLines(_, _)
ScanLines(lines, in_json) ==
    IF lines = <<>> THEN <<>>
    ELSE IF LineStartsWithFence(Head(lines)) THEN ScanLines(Tail(lines), ~in_json)
    ELSE IF in_json \/ ~LineStartsWithFence(Head(lines))
         THEN <<Head(lines)>> \o ScanLines(Tail(lines), in_json)
         ELSE ScanLines(Tail(lines), in_json)

\* An extraction that scans the lines whether or not the text starts with a fence
ExtractJsonAlwaysScan(response) ==
    Strip(JoinLines(ScanLines(SplitLines(Strip(response)), FALSE)))

\* nodes.py 187-201: the text handed to json.loads
ExtractJson(response) ==
    LET content == Strip(response)
    IN IF content # <<>> /\ Head(content) = Fence
       THEN Strip(JoinLines(ScanLines(SplitLines(content), FALSE)))
       ELSE content

\* json.loads: one document, blanks allowed around it, or the empty object
\* written as "{" and "}" with blanks and newlines between them; anything
\* else raises JSONDecodeError
json_loads(content) ==
    LET body == Strip(content)
    IN IF Len(body) = 1 /\ body[1] \in DOMAIN Docs
       THEN Ok(Docs[body[1]])
       ELSE IF /\ Len(body) >= 2
               /\ body[1] = "{"
               /\ body[Len(body)] = "}"
               /\ \A i \in 2..(Len(body) - 1) : IsSpace(body[i])
            THEN Ok(DocEmpty)
       ELSE Raise("JSONDecodeError", "Expecting value")

\* ParseReview keeping the stripped content as raw_response
ParseReviewStripped(response) ==
    LET parsed == json_loads(ExtractJson(response))
    IN IF parsed.ok THEN parsed.value
       ELSE JObj([error |-> JStr("Invalid JSON response from LLM"),
                  raw_response |-> [kind |-> "text", tokens |-> Strip(response)]])

\* nodes.py 185-209
ParseReview(response) ==
    LET parsed == json_loads(ExtractJson(response))
    IN IF parsed.ok THEN parsed.value
       ELSE JObj([error |-> JStr("Invalid JSON response from LLM"),
                  raw_response |-> [kind |-> "text", tokens |-> response]])

\* What llm.invoke may return in the review stage
Responses == {
    <<"{full}">>,
    <<Fence, "json", "nl", "{plain}", "nl", Fence>>,
    <<"prose">>,
    <<"ws", "prose", "nl">>,
    <<"{text}">>,
    <<"[]">>,
    <<"nl", "{}", "ws">> }

----------------------------------------------------------------------------
(* The output of the git commands: text as one-character strings, where    *)
(* "tab" is a tab and "nl" a newline                                       *)

Digits == <<"0", "1", "2", "3", "4", "5", "6", "7", "8", "9">>

\* str(n) for n >= 0
RECURSIVE IntText(_)
IntText(n) ==
    IF n < Len(Digits) THEN <<Digits[n + 1]>>
    ELSE IntText(n \div Len(Digits)) \o <<Digits[(n % Len(Digits)) + 1]>>

RECURSIVE DecimalValue(_)
DecimalValue(t) ==
    IF t = <<>> THEN 0
    ELSE DecimalValue(SubSeq(t, 1, Len(t) - 1)) * Len(Digits) + ((CHOOSE i \in 1..Len(Digits) : Digits[i] = t[Len(t)]) - 1)

\* int(text): surrounding blanks and one sign are accepted, then digits only
ParseInt(text) ==
    LET t == Strip(text)
        signed == t # <<>> /\ Head(t) \in {"+", "-"}
        digits == IF signed THEN Tail(t) ELSE t
    IN IF digits # <<>> /\ \A i \in 1..Len(digits) : \E k \in 1..Len(Digits) : Digits[k] = digits[i]
       THEN Ok(IF signed /\ Head(t) = "-" THEN 0 - DecimalValue(digits)
               ELSE DecimalValue(digits))
       ELSE Raise("ValueError", "invalid literal for int()")

\* str.split(sep) for a one-character separator
RECURSIVE Split(_, _)
Split(t, sep) ==
    IF \A i \in 1..Len(t) : t[i] # sep THEN <<t>>
    ELSE LET k == CHOOSE i \in 1..Len(t) : t[i] = sep /\ \A j \in 1..(i - 1) : t[j] # sep
         IN <<SubSeq(t, 1, k - 1)>> \o Split(SubSeq(t, k + 1, Len(t)), sep)

\* str.splitlines(): as split on the newline, without the empty piece after
\* a final newline, and no piece at all for the empty text
splitlines(t) ==
    LET pieces == SplitLines(t)
    IN IF pieces[Len(pieces)] = <<>> THEN SubSeq(pieces, 1, Len(pieces) - 1) ELSE pieces

\* What `git diff --name-only` and `git diff --numstat` print for a change set
\* Text of some lines, each ended by a newline, and of fields joined by tabs
RECURSIVE JoinRows(_)
JoinRows(rows) ==
    IF rows = <<>> THEN <<>> ELSE Head(rows) \o <<"nl">> \o JoinRows(Tail(rows))
RECURSIVE JoinFields(_)
JoinFields(fields) ==
    IF Len(fields) = 1 THEN Head(fields)
    ELSE Head(fields) \o <<"tab">> \o JoinFields(Tail(fields))

NameOnlyOutput(changes) ==
    LET idx == SortedIdx(DOMAIN changes)
    IN JoinRows([k \in 1..Len(idx) |-> PathList[idx[k]]])

NumstatOutput(changes) ==
    LET idx == SortedIdx(DOMAIN changes)
    IN JoinRows([k \in 1..Len(idx) |->
                    JoinFields(<<IntText(changes[idx[k]].added),
                                 IntText(changes[idx[k]].deleted), PathList[idx[k]]>>)])

\* The commands the validation hands to _run_git_command, in order: each
\* check runs only when the one before it passed
ValidateCommands(env) ==
    IF ~env.repo THEN <<GitCmd.git_dir>>
    ELSE IF ~env.base THEN <<GitCmd.git_dir, GitCmd.verify_base>>
    ELSE <<GitCmd.git_dir, GitCmd.verify_base, GitCmd.verify_branch>>

\* The commands a branch-comparing operation issues: its diff command follows
\* a validation that raised nothing
GitCommands(env, diff_cmd) ==
    IF Validate(env) # None THEN ValidateCommands(env)
    ELSE Append(ValidateCommands(env), diff_cmd)

\* result.stdout of a diff command: the text given for the call, or what git
\* prints for the change set
Stdout(env, rendered) == IF "stdout" \in DOMAIN env THEN env.stdout ELSE rendered

get_diff(env) ==
    IF Validate(env) # None THEN Raise("GitError", Validate(env))
    ELSE IF Strip(Stdout(env, NameOnlyOutput(env.changes))) = <<>> THEN Raise("GitError", ErrNoDiff)
    ELSE Ok("DIFF")

\* git_tools.py 131: the stripped non-blank lines of the output, in order
RECURSIVE StrippedLines(_)
StrippedLines(lines) ==
    IF lines = <<>> THEN <<>>
    ELSE IF Strip(Head(lines)) # <<>>
         THEN <<Strip(Head(lines))>> \o StrippedLines(Tail(lines))
    ELSE StrippedLines(Tail(lines))

\* get_changed_files as in the older layout (src/src/tools/git_tools.py 131-132):
\* the list is returned even when it is empty
get_changed_files_unchecked(env) ==
    IF Validate(env) # None THEN Raise("GitError", Validate(env))
    ELSE Ok(StrippedLines(SplitLines(Stdout(env, NameOnlyOutput(env.changes)))))

get_changed_files(env) ==
    IF Validate(env) # None THEN Raise("GitError", Validate(env))
    ELSE LET files == StrippedLines(SplitLines(Stdout(env, NameOnlyOutput(env.changes))))
         IN IF files = <<>> THEN Raise("GitError", ErrNoFiles) ELSE Ok(files)

\* A count field read with int() alone
NumstatCountStrict(field) == ParseInt(field)

\* git_tools.py 174-175: int(field) if field != "-" else 0
NumstatCount(field) == IF field # <<"-">> THEN ParseInt(field) ELSE Ok(0)

\* git_tools.py 167-180: the loop over the lines of the numstat output
RECURSIVE ParseNumstat(_, _)
ParseNumstat(lines, stats) ==
    IF lines = <<>> THEN stats
    ELSE LET line == Head(lines)
             parts == Split(line, "tab")
         IN IF Strip(line) = <<>> THEN ParseNumstat(Tail(lines), stats)
            ELSE IF Len(parts) >= 3
                 THEN LET added == NumstatCount(parts[1])
                          deleted == NumstatCount(parts[2])
                          filename == parts[3]
                      IN IF added.ok /\ deleted.ok
                         THEN ParseNumstat(Tail(lines),
                                           Put(stats, filename, <<added.value, deleted.value>>))
                         ELSE ParseNumstat(Tail(lines), stats)
            ELSE ParseNumstat(Tail(lines), stats)

get_diff_stats(env) ==
    IF Validate(env) # None THEN Raise("GitError", Validate(env))
    ELSE Ok(ParseNumstat(splitlines(Stdout(env, NumstatOutput(env.changes))), EmptyDict))

----------------------------------------------------------------------------
(* Skills *)

InList(x, list) == \E i \in 1..Len(list) : list[i] = x

\* A detector that looks at the repository markers only
LaravelDetectMarkersOnly(file_paths, changed_files) ==
    LET marker_dirs == { <<"a", "p", "p", "/">>, <<"r", "o", "u", "t", "e", "s", "/">>, <<"c", "o", "n", "f", "i", "g", "/">>, <<"d", "a", "t", "a", "b", "a", "s", "e", "/">> }
    IN IF InList(<<"a", "r", "t", "i", "s", "a", "n">>, file_paths) \/ InList(<<"c", "o", "m", "p", "o", "s", "e", "r", ".", "j", "s", "o", "n">>, file_paths) THEN TRUE
       ELSE \E i \in 1..Len(file_paths) : \E m \in marker_dirs : StartsWith(file_paths[i], m)

\* LaravelSkill.detect
LaravelDetect(file_paths, changed_files) ==
    LET has_php_changes == \E i \in 1..Len(changed_files) : EndsWith(changed_files[i], <<".", "p", "h", "p">>)
        marker_dirs == { <<"a", "p", "p", "/">>, <<"r", "o", "u", "t", "e", "s", "/">>, <<"c", "o", "n", "f", "i", "g", "/">>, <<"d", "a", "t", "a", "b", "a", "s", "e", "/">> }
    IN IF ~has_php_changes THEN FALSE
       ELSE IF InList(<<"a", "r", "t", "i", "s", "a", "n">>, file_paths) \/ InList(<<"c", "o", "m", "p", "o", "s", "e", "r", ".", "j", "s", "o", "n">>, file_paths) THEN TRUE
       ELSE \E i \in 1..Len(file_paths) : \E m \in marker_dirs : StartsWith(file_paths[i], m)

\* LaravelSkill.name (as text and as the string stored in the state)
\* and LaravelSkill.get_metadata
LaravelNameText == <<"l", "a", "r", "a", "v", "e", "l">>
LaravelName == "laravel"
LaravelMetadata ==
    JObj([name |-> JStr("laravel"),
          focus_areas |-> JList(<<JStr("performance"), JStr("mysql"), JStr("security")>>)])

\* An Optional[str] whose text matters: NoText is None, SomeText(t) the string t
NoText == [none |-> TRUE]
SomeText(t) == [text |-> t]
TruthyText(o) == "text" \in DOMAIN o /\ o.text # <<>>

\* nodes.py 150-168 for the one registered skill: the names of the active skills
ActiveSkills(manual_framework, repo_files, changed_files) ==
    IF TruthyText(manual_framework) /\ LowerText(manual_framework.text) = LaravelNameText
    THEN <<LaravelName>>
    ELSE IF ~TruthyText(manual_framework) /\ LaravelDetect(repo_files, changed_files)
         THEN <<LaravelName>>
    ELSE <<>>

\* nodes.py 213-218
SkillMetadata(active_skills, manual_framework) ==
    JObj([framework_detected |-> JStr(active_skills[1]),
          skills_applied |-> JList([i \in 1..Len(active_skills) |-> JStr(active_skills[i])]),
          detection_method |-> JStr(IF TruthyText(manual_framework) THEN "manual" ELSE "automatic"),
          skill_details |-> JList([i \in 1..Len(active_skills) |-> LaravelMetadata])])

\* SkillManager.__init__: the registry, by skill name
available_skills == <<LaravelName>>

\* A rule in which an override that names another skill leaves detection on
is_active_detect_also(skill, manual_skill, repo_files, changed_files) ==
    \/ TruthyText(manual_skill) /\ LowerText(manual_skill.text) = LaravelNameText
    \/ LaravelDetect(repo_files, changed_files)

\* skills_manager.py 38-48: is_active of one skill of the registry
is_active(skill, manual_skill, repo_files, changed_files) ==
    IF TruthyText(manual_skill) /\ LowerText(manual_skill.text) = LaravelNameText
    THEN TRUE
    ELSE IF ~TruthyText(manual_skill) /\ LaravelDetect(repo_files, changed_files)
         THEN TRUE
    ELSE FALSE

\* SkillManager.detect_skills: the new value of self.active_skills, also returned
detect_skills(manual_skill, repo_files, changed_files) ==
    SelectSeq(available_skills,
              LAMBDA skill : is_active(skill, manual_skill, repo_files, changed_files))

\* A detect_skills that appends to the list the last call left
detect_skills_accumulating(active_skills, manual_skill, repo_files, changed_files) ==
    active_skills \o detect_skills(manual_skill, repo_files, changed_files)

\* SkillManager.detect_skills on an instance whose self.active_skills is
\* active_skills: line 38 resets the list, the loop appends to it
detect_skills_on(active_skills, manual_skill, repo_files, changed_files) ==
    LET reset == <<>>
    IN reset \o detect_skills(manual_skill, repo_files, changed_files)

\* SkillManager.get_system_prompt, given self.active_skills: the text as
\* tokens, "nl" a newline
get_system_prompt(active_skills) ==
    LET prompt_addons == [i \in 1..Len(active_skills) |-> "LARAVEL_PROMPT_ADDON"]
        joined[i \in 0..Len(prompt_addons)] ==
            IF i = 0 THEN <<>>
            ELSE IF i = 1 THEN <<prompt_addons[1]>>
            ELSE joined[i - 1] \o <<"nl", "nl", prompt_addons[i]>>
    IN IF prompt_addons # <<>>
       THEN <<"XP_SYSTEM_PROMPT", "nl", "nl">> \o joined[Len(prompt_addons)]
       ELSE <<"XP_SYSTEM_PROMPT">>

\* Python None where a JSON value may stand
JNone == [kind |-> "none"]

\* Metadata whose detection method ignores the override
get_metadata_automatic(active_skills, manual_skill) ==
    IF active_skills = <<>> THEN JNone
    ELSE JObj([framework_detected |-> JStr(active_skills[1]),
               skills_applied |-> JList([i \in 1..Len(active_skills) |-> JStr(active_skills[i])]),
               detection_method |-> JStr("automatic"),
               skill_details |-> JList([i \in 1..Len(active_skills) |-> LaravelMetadata])])

\* SkillManager.get_metadata, given self.active_skills
get_metadata(active_skills, manual_skill) ==
    IF active_skills = <<>> THEN JNone
    ELSE JObj([framework_detected |-> JStr(active_skills[1]),
               skills_applied |-> JList([i \in 1..Len(active_skills) |-> JStr(active_skills[i])]),
               detection_method |-> JStr(IF TruthyText(manual_skill) THEN "manual" ELSE "automatic"),
               skill_details |-> JList([i \in 1..Len(active_skills) |-> LaravelMetadata])])

\* The overrides a caller may pass: None, "", "laravel", "LaraVel", "react"
ManualSkills == {
    NoText, SomeText(<<>>), SomeText(LaravelNameText),
    SomeText(<<"L", "a", "r", "a", "V", "e", "l">>),
    SomeText(<<"r", "e", "a", "c", "t">>) }

\* Paths a repository listing may hold: "artisan", "composer.json", "app/a.php",
\* "routes/w", "config/c", "database/d", "a.py", "src/artisan", "myapp/a.php"
RepoPaths == {
    <<"a", "r", "t", "i", "s", "a", "n">>,
    <<"c", "o", "m", "p", "o", "s", "e", "r", ".", "j", "s", "o", "n">>,
    <<"a", "p", "p", "/", "a", ".", "p", "h", "p">>,
    <<"r", "o", "u", "t", "e", "s", "/", "w">>,
    <<"c", "o", "n", "f", "i", "g", "/", "c">>,
    <<"d", "a", "t", "a", "b", "a", "s", "e", "/", "d">>,
    <<"a", ".", "p", "y">>,
    <<"s", "r", "c", "/", "a", "r", "t", "i", "s", "a", "n">>,
    <<"m", "y", "a", "p", "p", "/", "a", ".", "p", "h", "p">> }

\* Repository listings: none, one path, or "a.py" followed by one path
RepoFileLists ==
    {<<>>} \cup { <<p>> : p \in RepoPaths } \cup { << <<"a", ".", "p", "y">>, p >> : p \in RepoPaths }

\* Changed-file lists: [], ["a.py"], ["latest.php"], ["a.py", "latest.php"],
\* ["a.php.bak"], ["php"]
ChangedFileLists == {
    <<>>, <<PathList[1]>>, <<PathList[2]>>, <<PathList[1], PathList[2]>>,
    << <<"a", ".", "p", "h", "p", ".", "b", "a", "k">> >>,
    << <<"p", "h", "p">> >> }

----------------------------------------------------------------------------
(* Deterministic test-coverage scoring, nodes.py 223-259 *)

\* "test" in filename, without lower()
IsTestFileCaseSensitive(filename) == Contains(filename, TestWord)

\* "test" in filename.lower()
IsTestFile(filename) == Contains(LowerText(filename), TestWord)

RECURSIVE SumAdded(_, _)
SumAdded(diff_stats, files) ==
    IF files = {} THEN 0
    ELSE LET f == CHOOSE x \in files : TRUE
         IN diff_stats[f][1] + SumAdded(diff_stats, files \ {f})

\* test_lines and prod_lines after the loop of nodes.py 227-231
TestLines(diff_stats) ==
    SumAdded(diff_stats, { f \in DOMAIN diff_stats : IsTestFile(f) })
ProdLines(diff_stats) ==
    SumAdded(diff_stats, { f \in DOMAIN diff_stats : ~IsTestFile(f) })

\* Ratio without the sentinel of a test-only change
RatioNoSentinel(prod_lines, test_lines) ==
    IF prod_lines > 0 THEN JFloat(test_lines, prod_lines) ELSE JFloat(0, 1)

\* nodes.py 233-238
Ratio(prod_lines, test_lines) ==
    IF prod_lines > 0 THEN JFloat(test_lines, prod_lines)
    ELSE IF test_lines > 0 THEN JFloat(100, 1)
    ELSE JFloat(0, 1)

\* ratio >= n/d  and  ratio > 0
RatioGE(ratio, n, d) == ratio.num * d >= n * ratio.den
RatioPositive(ratio) == ratio.num > 0

\* Verdict without the both-zero test
VerdictNoNA(ratio, prod_lines, test_lines) ==
    IF RatioGE(ratio, 1, 1) THEN "EXCELLENT"
    ELSE IF RatioGE(ratio, 1, 2) THEN "GOOD"
    ELSE IF RatioPositive(ratio) THEN "ACCEPTABLE"
    ELSE "MISSING"

\* nodes.py 240-249
Verdict(ratio, prod_lines, test_lines) ==
    IF RatioGE(ratio, 1, 1) THEN "EXCELLENT"
    ELSE IF RatioGE(ratio, 1, 2) THEN "GOOD"
    ELSE IF RatioPositive(ratio) THEN "ACCEPTABLE"
    ELSE IF prod_lines = 0 /\ test_lines = 0 THEN "N/A"
    ELSE "MISSING"

\* nodes.py 252-259. review_result.get raises AttributeError when the parsed
\* response is no dict; the except clause of 261-263 swallows it and the
\* result stays as it is
\* A merge that replaces the whole test_analysis by the four computed fields
InjectTestAnalysisReplacing(review_result, diff_stats) ==
    LET prod_lines == ProdLines(diff_stats)
        test_lines == TestLines(diff_stats)
        ratio == Ratio(prod_lines, test_lines)
    IN IF ~IsDict(review_result) THEN review_result
       ELSE JObj(Put(review_result.fields, "test_analysis",
                     JObj([production_lines |-> JInt(prod_lines),
                           test_lines |-> JInt(test_lines),
                           ratio |-> ratio,
                           verdict |-> JStr(Verdict(ratio, prod_lines, test_lines))])))

InjectTestAnalysis(review_result, diff_stats) ==
    LET prod_lines == ProdLines(diff_stats)
        test_lines == TestLines(diff_stats)
        ratio == Ratio(prod_lines, test_lines)
        verdict == Verdict(ratio, prod_lines, test_lines)
    IN IF ~IsDict(review_result) THEN review_result
       ELSE LET existing_analysis == Get(review_result.fields, "test_analysis", JObj(EmptyDict))
            IN IF IsDict(existing_analysis)
               THEN JObj(Put(review_result.fields, "test_analysis",
                        JObj(Merge(existing_analysis.fields,
                            [production_lines |-> JInt(prod_lines),
                             test_lines |-> JInt(test_lines),
                             ratio |-> ratio,
                             verdict |-> JStr(verdict)]))))
               ELSE review_result

----------------------------------------------------------------------------
(* The nodes, nodes.py *)

ErrUnexpected == "Unexpected error: [Errno 13] Permission denied: 'git'"
ErrPlan == "Failed to generate plan: model call failed"
ErrReview == "Failed to execute review: model call failed"
ErrReviewType == "Failed to execute review: list indices must be integers or slices, not str"

\* What the except clauses of nodes.py 57-62 store for a failed query
FetchError(res) == IF res.exc = "GitError" THEN res.msg ELSE ErrUnexpected

\* A fetch stage that stores each result as soon as its query has returned
fetch_git_context_stepwise(st, diff_res, files_res, stats_res) ==
    IF ~diff_res.ok THEN Put(st, "error", FetchError(diff_res))
    ELSE IF ~files_res.ok
         THEN Merge(st, [diff_content |-> diff_res.value, error |-> FetchError(files_res)])
    ELSE IF ~stats_res.ok
         THEN Merge(st, [diff_content |-> diff_res.value,
                         changed_files |-> files_res.value,
                         error |-> FetchError(stats_res)])
    ELSE Merge(st, [diff_content |-> diff_res.value,
                    changed_files |-> files_res.value,
                    diff_stats |-> stats_res.value,
                    error |-> None])

\* fetch_git_context, given what its three queries return
fetch_git_context(st, diff_res, files_res, stats_res) ==
    IF ~diff_res.ok THEN Put(st, "error", FetchError(diff_res))
    ELSE IF ~files_res.ok THEN Put(st, "error", FetchError(files_res))
    ELSE IF ~stats_res.ok THEN Put(st, "error", FetchError(stats_res))
    ELSE Merge(st, [diff_content |-> diff_res.value,
                    changed_files |-> files_res.value,
                    diff_stats |-> stats_res.value,
                    error |-> None])

\* generate_plan, given what llm.invoke does
generate_plan(st, llm_res) ==
    IF llm_res.ok THEN Merge(st, [review_plan |-> llm_res.value, error |-> None])
    ELSE Put(st, "error", ErrPlan)

\* await_approval, given what ask_approval returned
await_approval(st, approved) == Put(st, "user_approved", approved)

\* A review stage that drops the exception instead of recording it
ExceptReviewSilent(st, msg) == st

\* nodes.py 271-273: the except clause of execute_review
ExceptReview(st, msg) == Put(st, "error", msg)

\* A review stage whose scoring step has no except clause of its own: a
\* failure while merging the scores reaches the outer except clause
execute_review_scoring_unguarded(st, repo_res, llm_res) ==
    LET repo_files == IF repo_res.ok THEN repo_res.value ELSE <<>>
        manual_framework == Get(st, "manual_framework", NoText)
        active_skills == ActiveSkills(manual_framework, repo_files, st["changed_files"])
    IN IF ~llm_res.ok THEN ExceptReview(st, ErrReview)
       ELSE LET parsed == ParseReview(llm_res.value)
            IN IF ~IsDict(parsed)
               THEN ExceptReview(st, ErrReviewType)
               ELSE LET with_metadata ==
                            IF active_skills # <<>>
                            THEN JObj(Put(parsed.fields, "metadata",
                                          SkillMetadata(active_skills, manual_framework)))
                            ELSE parsed
                    IN Merge(st, [review_result |->
                                      InjectTestAnalysis(with_metadata, Get(st, "diff_stats", EmptyDict)),
                                  active_skills |-> active_skills,
                                  error |-> None])

\* execute_review, given what list_repository_files and llm.invoke do
execute_review(st, repo_res, llm_res) ==
    LET repo_files == IF repo_res.ok THEN repo_res.value ELSE <<>>
        manual_framework == Get(st, "manual_framework", NoText)
        active_skills == ActiveSkills(manual_framework, repo_files, st["changed_files"])
    IN IF ~llm_res.ok THEN ExceptReview(st, ErrReview)
       ELSE LET parsed == ParseReview(llm_res.value)
            IN IF active_skills # <<>> /\ ~IsDict(parsed)
               THEN ExceptReview(st, ErrReviewType)
               ELSE LET with_metadata ==
                            IF active_skills # <<>>
                            THEN JObj(Put(parsed.fields, "metadata",
                                          SkillMetadata(active_skills, manual_framework)))
                            ELSE parsed
                        review_result ==
                            InjectTestAnalysis(with_metadata, Get(st, "diff_stats", EmptyDict))
                    IN Merge(st, [review_result |-> review_result,
                                  active_skills |-> active_skills,
                                  error |-> None])

\* A report stage that clears the error it has shown
generate_report_clearing(st) == Put(st, "error", None)

\* generate_report, when print_review_result returns: the state as it came
generate_report(st) == st

\* bool(v) of a JSON value
JTruthy(v) ==
    CASE v.kind = "dict" -> DOMAIN v.fields # {}
      [] v.kind = "list" -> Len(v.items) > 0
      [] v.kind = "str" -> v.text # ""
      [] v.kind = "int" -> v.int # 0
      [] OTHER -> TRUE

\* print_review_result, logger.py 74-192: whether it raises. It calls .get on the
\* result, on its "overall" and on its "test_analysis" when that is truthy
PrintReviewResultRaises(result) ==
    \/ ~IsDict(result)
    \/ /\ IsDict(result)
       /\ \/ ~IsDict(Get(result.fields, "overall", JObj(EmptyDict)))
          \/ LET test_analysis == Get(result.fields, "test_analysis", JObj(EmptyDict))
             IN JTruthy(test_analysis) /\ ~IsDict(test_analysis)

\* ask_approval, logger.py 226-234: the answer to one input line:
\* "true", "false", or "again" for the re-prompt
YesWords == { <<"y">>, <<"y", "e", "s">> }
NoWords == { <<"n">>, <<"n", "o">> }
\* An answer compared as typed, without strip() and lower()
AskApprovalAnswerAsTyped(line) ==
    IF line \in YesWords THEN "true"
    ELSE IF line \in NoWords THEN "false"
    ELSE "again"

AskApprovalAnswer(line) ==
    LET response == LowerText(Strip(line))
    IN IF response \in YesWords THEN "true"
       ELSE IF response \in NoWords THEN "false"
       ELSE "again"

\* Lines the user may type: "y", " YES", "n", "No ", "maybe", ""
InputLines == {
    <<"y">>, <<" ", "Y", "E", "S">>, <<"n">>, <<"N", "o", " ">>,
    <<"m", "a", "y", "b", "e">>, <<>> }

----------------------------------------------------------------------------
(* The graph, workflow.py *)

END == "END"

\* The linear edge fetch_git_context -> generate_plan
check_error_after_fetch_linear(st) == "generate_plan"

check_error_after_fetch(st) ==
    IF Truthy(Get(st, "error", None)) THEN END ELSE "generate_plan"

\* An edge that goes back to the fetch stage when the plan failed
check_error_after_plan_retry(st) ==
    IF Truthy(Get(st, "error", None)) THEN "fetch_git_context" ELSE "await_approval"

check_error_after_plan(st) ==
    IF Truthy(Get(st, "error", None)) THEN END ELSE "await_approval"

\* should_continue without the approval test
should_continue_unguarded(st) ==
    IF Truthy(Get(st, "error", None)) THEN END ELSE "execute_review"

should_continue(st) ==
    IF Truthy(Get(st, "error", None)) THEN END
    ELSE IF Get(st, "user_approved", FALSE) THEN "execute_review"
    ELSE END

\* A conditional edge after execute_review
edge_after_execute_review_checked(st) ==
    IF Truthy(Get(st, "error", None)) THEN END ELSE "generate_report"

\* workflow.add_edge("execute_review", "generate_report") and
\* workflow.add_edge("generate_report", END)
edge_after_execute_review(st) == "generate_report"
edge_after_generate_report(st) == END

Nodes == {"fetch_git_context", "generate_plan", "await_approval",
          "execute_review", "generate_report"}

----------------------------------------------------------------------------
(* The run: cli.main drives workflow.invoke(initial_state) *)

\* cli.py 115-124
initial_state == [
    branch_name |-> "feature",
    base_branch |-> "main",
    diff_content |-> "",
    changed_files |-> <<>>,
    review_plan |-> "",
    user_approved |-> FALSE,
    review_result |-> JObj(EmptyDict),
    error |-> None ]

\* No library call made yet
NoCall == [op |-> "none"]

Init ==
    /\ pc = "fetch_git_context"
    /\ state = initial_state
    /\ ran = <<>>
    /\ gate = "none"
    /\ reprompts = 0
    /\ fault = {}
    /\ reply = NoText
    /\ outcome = "running"
    /\ exit_code = NoCode
    /\ manager = <<>>
    /\ call = NoCall

Enter(node) == IF InList(node, ran) THEN ran ELSE Append(ran, node)

\* Node fetch_git_context followed by its conditional edge. crash names the
\* query (1, 2, 3; 0 for none) in which subprocess.run raises an OSError that
\* _run_git_command does not convert
FetchGitContextIn(envs) ==
    /\ pc = "fetch_git_context"
    /\ \E env \in envs, crash \in 0..3 :
          LET oserror == Raise("OSError", "Permission denied")
              diff_res == IF crash = 1 THEN oserror ELSE get_diff(env)
              files_res == IF crash = 2 THEN oserror ELSE get_changed_files(env)
              stats_res == IF crash = 3 THEN oserror ELSE get_diff_stats(env)
          IN /\ state' = fetch_git_context(state, diff_res, files_res, stats_res)
             /\ fault' = IF diff_res.ok /\ files_res.ok /\ stats_res.ok
                         THEN fault ELSE fault \cup {"fetch"}
    /\ pc' = check_error_after_fetch(state')
    /\ ran' = Enter("fetch_git_context")
    /\ UNCHANGED <<gate, reprompts, reply, outcome, exit_code>>
    /\ UNCHANGED lib_vars

FetchGitContext == FetchGitContextIn(GitEnvs)

\* The fetch stage in a handful of repositories: outside a repository, a
\* missing base branch, a missing feature branch, no change, a changed
\* "a.py", a changed "latest.php", and "a.py" changed with its test "tes/t.py"
SampleGitEnvs ==
    LET env(repo, base, branch, changes) ==
            [repo |-> repo, base |-> base, branch |-> branch, changes |-> changes]
        lines(a, d) == [added |-> a, deleted |-> d]
    IN { env(FALSE, TRUE, TRUE, [i \in {} |-> lines(0, 0)]),
         env(TRUE, FALSE, FALSE, [i \in {} |-> lines(0, 0)]),
         env(TRUE, TRUE, FALSE, [i \in {} |-> lines(0, 0)]),
         env(TRUE, TRUE, TRUE, [i \in {} |-> lines(0, 0)]),
         env(TRUE, TRUE, TRUE, [i \in {1} |-> lines(1, 0)]),
         env(TRUE, TRUE, TRUE, [i \in {2} |-> lines(1, 1)]),
         env(TRUE, TRUE, TRUE, [i \in {1, NPaths} |-> lines(1, 0)]) }
FetchGitContextSampled == FetchGitContextIn(SampleGitEnvs)

\* Node generate_plan followed by its conditional edge
GeneratePlan ==
    /\ pc = "generate_plan"
    /\ \E llm_res \in {Ok("PLAN"), Raise("LLMError", "model call failed")} :
          /\ state' = generate_plan(state, llm_res)
          /\ fault' = IF llm_res.ok THEN fault ELSE fault \cup {"plan_llm"}
    /\ pc' = check_error_after_plan(state')
    /\ ran' = Enter("generate_plan")
    /\ UNCHANGED <<gate, reprompts, reply, outcome, exit_code>>
    /\ UNCHANGED lib_vars

\* Node await_approval: one line read by ask_approval. A valid answer ends
\* the node, and its conditional edge follows; anything else re-prompts
AwaitApproval ==
    /\ pc = "await_approval"
    /\ ran' = Enter("await_approval")
    /\ \E line \in InputLines :
          LET answer == AskApprovalAnswer(line)
          IN /\ call' = [op |-> "ask_approval", line |-> line, out |-> answer]
             /\ IF answer = "again"
                THEN /\ reprompts < MaxReprompts
                     /\ reprompts' = reprompts + 1
                     /\ UNCHANGED <<pc, state, gate>>
                ELSE /\ state' = await_approval(state, answer = "true")
                     /\ gate' = answer
                     /\ pc' = should_continue(state')
                     /\ UNCHANGED reprompts
    /\ UNCHANGED <<fault, reply, outcome, exit_code, manager>>

\* Node execute_review followed by its edge
ExecuteReview ==
    /\ pc = "execute_review"
    /\ \E repo_res \in {Raise("GitError", ErrNotRepo)} \cup { Ok(l) : l \in RepoListings },
          llm_res \in {Raise("LLMError", "model call failed")} \cup { Ok(r) : r \in Responses } :
          /\ state' = execute_review(state, repo_res, llm_res)
          /\ fault' = IF ~llm_res.ok THEN fault \cup {"review_llm"}
                      ELSE IF ~json_loads(ExtractJson(llm_res.value)).ok
                           THEN fault \cup {"invalid_json"}
                      ELSE fault
          /\ reply' = IF llm_res.ok THEN SomeText(llm_res.value) ELSE NoText
    /\ pc' = edge_after_execute_review(state')
    /\ ran' = Enter("execute_review")
    /\ UNCHANGED <<gate, reprompts, outcome, exit_code>>
    /\ UNCHANGED lib_vars

\* Node generate_report followed by its edge, when print_review_result returns
GenerateReport ==
    /\ pc = "generate_report"
    /\ ~PrintReviewResultRaises(state["review_result"])
    /\ state' = generate_report(state)
    /\ pc' = edge_after_generate_report(state')
    /\ ran' = Enter("generate_report")
    /\ UNCHANGED <<gate, reprompts, fault, reply, outcome, exit_code>>
    /\ UNCHANGED lib_vars

\* cli.py 142-144: an exception leaves a node that has no try block.
\* generate_report: print_review_result raises; await_approval: input() raises
\* EOFError on a closed stdin
ExceptionEscapes ==
    /\ \/ pc = "generate_report" /\ PrintReviewResultRaises(state["review_result"])
       \/ pc = "await_approval"
    /\ ran' = Enter(pc)
    /\ pc' = "exited"
    /\ outcome' = "exception"
    /\ exit_code' = 1
    /\ UNCHANGED <<state, gate, reprompts, fault, reply>>
    /\ UNCHANGED lib_vars

\* cli.py 139-141: KeyboardInterrupt while the workflow runs
Interrupt ==
    /\ pc \in Nodes
    /\ pc' = "exited"
    /\ outcome' = "interrupted"
    /\ exit_code' = 1
    /\ UNCHANGED <<state, ran, gate, reprompts, fault, reply>>
    /\ UNCHANGED lib_vars

\* An exit code that ignores the error field
ExitCodeZero(result) == 0

\* An exit code that reports a rejected plan as a failure
ExitCodeRejectionFails(result) ==
    IF Truthy(Get(result, "error", None)) \/ ~Get(result, "user_approved", FALSE) THEN 1 ELSE 0

\* cli.py 131-137
ExitCode(result) == IF Truthy(Get(result, "error", None)) THEN 1 ELSE 0

\* cli.py 128-137: workflow.invoke returned
Exit ==
    /\ pc = END
    /\ pc' = "exited"
    /\ outcome' = "returned"
    /\ exit_code' = ExitCode(state)
    /\ UNCHANGED <<state, ran, gate, reprompts, fault, reply>>
    /\ UNCHANGED lib_vars

Next ==
    \/ FetchGitContext
    \/ GeneratePlan
    \/ AwaitApproval
    \/ ExecuteReview
    \/ GenerateReport
    \/ ExceptionEscapes
    \/ Interrupt
    \/ Exit

Spec == Init /\ [][Next]_vars

\* The run under its scheduling, in the sampled repositories:
\* workflow.invoke runs the node it has reached, an exception that is raised
\* propagates, main exits once invoke returned, and the user at the prompt
\* goes on answering
FairNext ==
    \/ FetchGitContextSampled
    \/ GeneratePlan
    \/ AwaitApproval
    \/ ExecuteReview
    \/ GenerateReport
    \/ ExceptionEscapes
    \/ Interrupt
    \/ Exit

FairSpec ==
    /\ Init /\ [][FairNext]_vars
    /\ WF_vars(FetchGitContextSampled) /\ WF_vars(GeneratePlan) /\ WF_vars(AwaitApproval)
    /\ WF_vars(ExecuteReview) /\ WF_vars(GenerateReport) /\ WF_vars(ExceptionEscapes)
    /\ WF_vars(Exit)

----------------------------------------------------------------------------
(* Library calls: the operations of the collaborators called on their own, *)
(* as the unit tests call them. A call starts with its arguments drawn     *)
(* from the bounded sets below and ends with its result in call.out; the   *)
(* calls on the one SkillManager follow each other in any order            *)

\* A call whose arguments are given and whose result is not there yet, and
\* the call once it returned or raised
IsPending(op) == call.op = op /\ "out" \notin DOMAIN call
Done(op) == call.op = op /\ "out" \in DOMAIN call

\* manager.detect_skills(manual_skill, repo_files, changed_files)
DetectSkills ==
    /\ call.op \in {"none", "detect_skills", "get_metadata", "get_system_prompt"}
    /\ \E manual_skill \in ManualSkills, repo_files \in RepoFileLists,
          changed_files \in ChangedFileLists :
          /\ manager' = detect_skills_on(manager, manual_skill, repo_files, changed_files)
          /\ call' = [op |-> "detect_skills", manual_skill |-> manual_skill,
                      repo_files |-> repo_files, changed_files |-> changed_files,
                      out |-> manager']
    /\ UNCHANGED run_vars

\* manager.get_metadata(manual_skill)
GetMetadata ==
    /\ call.op \in {"none", "detect_skills", "get_metadata", "get_system_prompt"}
    /\ \E manual_skill \in ManualSkills :
          call' = [op |-> "get_metadata", manual_skill |-> manual_skill,
                   active_skills |-> manager,
                   out |-> get_metadata(manager, manual_skill)]
    /\ UNCHANGED <<manager, run_vars>>

\* manager.get_system_prompt()
GetSystemPrompt ==
    /\ call.op \in {"none", "detect_skills", "get_metadata", "get_system_prompt"}
    /\ call' = [op |-> "get_system_prompt", active_skills |-> manager,
                out |-> get_system_prompt(manager)]
    /\ UNCHANGED <<manager, run_vars>>

\* LaravelSkill().detect(file_paths, changed_files)
DetectCalls ==
    { [op |-> "detect", file_paths |-> f, changed_files |-> c] :
        f \in RepoFileLists, c \in ChangedFileLists }
Detect ==
    /\ IsPending("detect")
    /\ call' = Put(call, "out", LaravelDetect(call.file_paths, call.changed_files))
    /\ UNCHANGED <<manager, run_vars>>

\* The state a review stage is handed: fetched context, approved plan, and
\* the manual_framework key when an override is given
ReviewStageState(manual_framework, changed_files) ==
    LET st == Merge(initial_state,
                    [diff_content |-> "DIFF", changed_files |-> changed_files,
                     diff_stats |-> EmptyDict, review_plan |-> "PLAN",
                     user_approved |-> TRUE])
    IN IF manual_framework = NoText THEN st
       ELSE Put(st, "manual_framework", manual_framework)

\* execute_review(state) called on its own
ExecuteReviewCalls ==
    { [op |-> "execute_review", st |-> ReviewStageState(manual, changed),
       repo_res |-> repo_res,
       repo_files |-> IF repo_res.ok THEN repo_res.value ELSE <<>>,
       llm_res |-> llm_res] :
        manual \in ManualSkills,
        changed \in {<<PathList[1]>>, <<PathList[2]>>},
        repo_res \in {Raise("GitError", ErrNotRepo), Ok(<<>>), Ok(<< <<"a", "r", "t", "i", "s", "a", "n">> >>)},
        llm_res \in {Raise("LLMError", "model call failed")} \cup { Ok(r) : r \in Responses } }
ExecuteReviewCall ==
    /\ IsPending("execute_review")
    /\ call' = Put(call, "out", execute_review(call.st, call.repo_res, call.llm_res))
    /\ UNCHANGED <<manager, run_vars>>

\* What git shows the operations called on their own: every outcome of the
\* three checks, with no change or with one changed file
LibGitEnvs ==
    [repo : BOOLEAN, base : BOOLEAN, branch : BOOLEAN,
     changes : { [i \in {} |-> [added |-> 0, deleted |-> 0]],
                 [i \in {1} |-> [added |-> 1, deleted |-> 0]] }]

\* A repository where the three checks pass and the diff command prints text
EnvPrinting(text) ==
    [repo |-> TRUE, base |-> TRUE, branch |-> TRUE,
     changes |-> [i \in {} |-> [added |-> 0, deleted |-> 0]], stdout |-> text]

\* Lines of a name-only output: "a.py", "b", " a.py " and the blank ones
NameOnlyInputs ==
    LET NameRows == { <<"a", ".", "p", "y">>, <<"b">>, <<" ", "a", ".", "p", "y", " ">>, <<>>, <<" ">> }
    IN {<<>>} \cup { <<r>> : r \in NameRows } \cup { <<r, q>> : r, q \in NameRows }

\* Fields of a numstat line: counts "0", "1", "12", "-", "x", "" and "1.5",
\* paths "a.py" and "b"
\* Numstat outputs: nothing, one line, or a line for "b" before another line
NumstatInputs ==
    LET CountFields == { <<"0">>, <<"1">>, <<"1", "2">>, <<"-">>, <<"x">>, <<>>, <<"1", ".", "5">> }
        PathFields == { <<"a", ".", "p", "y">>, <<"b">> }
        NumstatLines ==
            { <<c, d, f>> : c \in CountFields, d \in CountFields, f \in PathFields }
            \cup { <<c, f>> : c \in CountFields, f \in PathFields }
            \cup { << <<"1">>, <<"0">>, <<"b">>, <<"x">> >>, << <<" ">> >>, << <<"b">> >> }
    IN {<<>>} \cup { <<l>> : l \in NumstatLines }
       \cup { << << <<"1">>, <<"0">>, <<"b">> >>, l >> : l \in NumstatLines }

\* get_diff, get_changed_files and get_diff_stats on ("feature", "main").
\* rows are the lines `git diff --name-only` prints and lines the lines of
\* fields `git diff --numstat` prints, when the output is given as such
GitCalls ==
    { [op |-> op, env |-> env, rows |-> <<>>] :
        op \in {"get_diff", "get_changed_files"}, env \in LibGitEnvs }
    \cup { [op |-> "get_diff_stats", env |-> env, lines |-> <<>>] : env \in LibGitEnvs }
    \cup { [op |-> "get_changed_files", env |-> EnvPrinting(JoinRows(rows)), rows |-> rows] :
             rows \in NameOnlyInputs }
    \cup { [op |-> "get_diff_stats",
             env |-> EnvPrinting(JoinRows([i \in 1..Len(lines) |-> JoinFields(lines[i])])),
             lines |-> lines] :
             lines \in NumstatInputs }

GetDiff ==
    /\ IsPending("get_diff")
    /\ call' = Put(Put(call, "out", get_diff(call.env)),
                   "commands", GitCommands(call.env, GitCmd.get_diff))
    /\ UNCHANGED <<manager, run_vars>>

GetChangedFiles ==
    /\ IsPending("get_changed_files")
    /\ call' = Put(Put(call, "out", get_changed_files(call.env)),
                   "commands", GitCommands(call.env, GitCmd.get_changed_files))
    /\ UNCHANGED <<manager, run_vars>>

GetDiffStats ==
    /\ IsPending("get_diff_stats")
    /\ call' = Put(Put(call, "out", get_diff_stats(call.env)),
                   "commands", GitCommands(call.env, GitCmd.get_diff_stats))
    /\ UNCHANGED <<manager, run_vars>>

\* cli.py 87-94: the loop over sys.argv[2:], given the base so far. The
\* result is the base branch, or the exit code of sys.exit
RECURSIVE ParseOptions(_, _)
ParseOptions(args, base) ==
    IF args = <<>> THEN [value |-> base]
    ELSE LET arg == Head(args)
         IN IF StartsWith(arg, <<"-", "-", "b", "a", "s", "e", "=">>)
            THEN ParseOptions(Tail(args), SubSeq(arg, 8, Len(arg)))
            ELSE IF StartsWith(arg, <<"-", "-">>) THEN [exit |-> 1]
            ELSE ParseOptions(Tail(args), base)

\* parse_args, given sys.argv (the program name first): the tuple
\* (branch, base), or the exit code of sys.exit
parse_args(argv) ==
    IF Len(argv) < 2 \/ InList(<<"-", "-", "h", "e", "l", "p">>, argv) \/ InList(<<"-", "h">>, argv)
    THEN [exit |-> 0]
    ELSE IF InList(<<"-", "-", "v", "e", "r", "s", "i", "o", "n">>, argv) THEN [exit |-> 0]
    ELSE IF argv[2] = <<"u", "p", "d", "a", "t", "e">> THEN [exit |-> 0]
    ELSE LET branch == argv[2]
             base == ParseOptions(SubSeq(argv, 3, Len(argv)), <<"m", "a", "i", "n">>)
         IN IF "exit" \in DOMAIN base THEN base ELSE [value |-> <<branch, base.value>>]

\* Command lines: the program name, then nothing, "--help", "update", or the
\* branch "fx" followed by up to two of "--base=dev", "--skill=laravel",
\* "--verbose" and the stray word "dev"
ArgvInputs ==
    LET prog == <<"u", "a", "t", "i", "a", "r", "i">>
        branch == <<"f", "x">>
        options == { <<"-", "-", "b", "a", "s", "e", "=", "d", "e", "v">>,
                     <<"-", "-", "s", "k", "i", "l", "l", "=", "l", "a", "r", "a", "v", "e", "l">>,
                     <<"-", "-", "v", "e", "r", "b", "o", "s", "e">>,
                     <<"d", "e", "v">> }
    IN { <<prog>>, <<prog, <<"-", "-", "h", "e", "l", "p">> >>,
         <<prog, branch, <<"-", "h">> >>, <<prog, <<"u", "p", "d", "a", "t", "e">> >>,
         <<prog, branch>> }
       \cup { <<prog, branch, o>> : o \in options }
       \cup { <<prog, branch, o, q>> : o, q \in options }

\* parse_args() with sys.argv set, as the CLI tests call it
ParseArgs ==
    /\ IsPending("parse_args")
    /\ call' = Put(call, "out", parse_args(call.argv))
    /\ UNCHANGED <<manager, run_vars>>

\* fetch_git_context(state) called on its own: on the initial state and on a
\* state that holds the context of an earlier fetch, with each query
\* returning or raising what it does in some repository, or an OSError
FetchCalls ==
    LET oserror == Raise("OSError", "Permission denied")
        earlier == Merge(initial_state,
                         [diff_content |-> "OLD DIFF", changed_files |-> <<PathList[2]>>,
                          diff_stats |-> EmptyDict])
    IN { [op |-> "fetch_git_context", st |-> st, diff_res |-> diff_res,
          files_res |-> files_res, stats_res |-> stats_res] :
            st \in {initial_state, earlier},
            diff_res \in {oserror} \cup { get_diff(env) : env \in SampleGitEnvs },
            files_res \in {oserror} \cup { get_changed_files(env) : env \in SampleGitEnvs },
            stats_res \in {oserror} \cup { get_diff_stats(env) : env \in SampleGitEnvs } }
FetchGitContextCall ==
    /\ IsPending("fetch_git_context")
    /\ call' = Put(call, "out", fetch_git_context(call.st, call.diff_res,
                                                  call.files_res, call.stats_res))
    /\ UNCHANGED <<manager, run_vars>>

\* update_cli, updater.py 157-197: the swap of the installation. A directory
\* is the version it holds and the files of that version still in it;
\* NoDir is a path at which nothing exists
InstallFiles == {"uatiari", "_internal"}
Dir(version, files) == [version |-> version, files |-> files]
NoDir == Dir("none", {})

\* update_cli at "Installing update...": the previous version installed, no
\* backup directory, the package extracted (with or without the binary
\* "uatiari" in it) and the downloaded archive in the temp directory
UpdateCalls ==
    { [op |-> "update_cli", at |-> "move_to_backup",
       install |-> Dir("old", InstallFiles), backup |-> NoDir,
       extracted |-> package, package |-> package,
       download |-> TRUE, failed |-> "none"] :
        package \in {Dir("new", InstallFiles), Dir("new", {"_internal"})} }
UpdateAt(step) == call.op = "update_cli" /\ call.at = step

\* updater.py 166: shutil.move(install_dir, backup_dir), a rename inside one
\* parent directory; when it raises, the except clause of line 193 is next
UpdateMoveToBackup ==
    /\ UpdateAt("move_to_backup")
    /\ \/ call' = Merge(call, [backup |-> call.install, install |-> NoDir,
                               at |-> "move_into_place"])
       \/ call' = Merge(call, [at |-> "finally", failed |-> "move_to_backup"])
    /\ UNCHANGED <<manager, run_vars>>

\* updater.py 170: shutil.move(extracted_folder, install_dir), out of the
\* temp directory; when it raises, install_dir is missing or holds the files
\* copied so far
UpdateMoveIntoPlace ==
    /\ UpdateAt("move_into_place")
    /\ \/ call' = Merge(call, [install |-> call.extracted, extracted |-> NoDir,
                               at |-> "chmod"])
       \/ \E copied \in SUBSET call.extracted.files :
             call' = Merge(call, [install |-> Dir("new", copied), at |-> "rollback",
                                  failed |-> "move_into_place"])
       \/ call' = Merge(call, [at |-> "rollback", failed |-> "move_into_place"])
    /\ UNCHANGED <<manager, run_vars>>

\* updater.py 173-175: os.chmod of the new binary when it exists
UpdateChmod ==
    /\ UpdateAt("chmod")
    /\ \/ call' = Merge(call, [at |-> "remove_backup"])
       \/ /\ "uatiari" \in call.install.files
          /\ call' = Merge(call, [at |-> "rollback", failed |-> "chmod"])
    /\ UNCHANGED <<manager, run_vars>>

\* updater.py 178: shutil.rmtree(backup_dir); when it raises, the entries it
\* had removed before the one that failed are gone
UpdateRemoveBackup ==
    /\ UpdateAt("remove_backup")
    /\ \/ call' = Merge(call, [backup |-> NoDir, at |-> "finally"])
       \/ \E left \in SUBSET call.backup.files :
             call' = Merge(call, [backup |-> Dir(call.backup.version, left),
                                  at |-> "rollback", failed |-> "remove_backup"])
    /\ UNCHANGED <<manager, run_vars>>

\* updater.py 180-186: the rollback: install_dir removed when it exists, the
\* backup moved back, the exception raised again
UpdateRollback ==
    /\ UpdateAt("rollback")
    /\ call' = Merge(call, [install |-> call.backup, backup |-> NoDir, at |-> "finally"])
    /\ UNCHANGED <<manager, run_vars>>

\* updater.py 193-197: the outer except clause prints, the finally clause
\* unlinks the downloaded archive, update_cli returns
UpdateFinally ==
    /\ UpdateAt("finally")
    /\ call' = Merge(call, [download |-> FALSE, at |-> "returned"])
    /\ UNCHANGED <<manager, run_vars>>

\* Length of the response texts enumerated in full
MaxResponseLen == 5

\* Response texts the parse step is called on: every text of up to
\* MaxResponseLen tokens, and longer ones: blanks around the fences, a JSON
\* object over several lines, text before the block, text after it, text
\* inside it, two blocks, an empty second block
ResponseInputs ==
    LET ResponseTokens == {Fence, "json", "nl", "prose", "{}"}
    IN UNION { [1..n -> ResponseTokens] : n \in 0..MaxResponseLen } \cup Responses \cup {
        <<"ws", Fence, "json", "nl", "ws", "{}", "ws", "nl", Fence, "ws", "nl">>,
        <<Fence, "json", "nl", "{", "nl", "ws", "}", "nl", Fence>>,
        <<Fence, "json", "nl", "{full}", "nl", Fence>>,
        <<"prose", "nl", Fence, "json", "nl", "{}", "nl", Fence>>,
        <<Fence, "json", "nl", "{}", "nl", Fence, "nl", "prose">>,
        <<Fence, "json", "nl", "prose", "nl", "{}", "nl", Fence>>,
        <<Fence, "nl", "{}", "nl", Fence, "nl", Fence, "nl", "{plain}", "nl", Fence>>,
        <<Fence, "nl", "{}", "nl", Fence, "nl", Fence, "nl", Fence>>,
        <<"{", "nl", "}", "nl", Fence>> }

\* The parse step of execute_review called on one response: the text handed
\* to json.loads and the review_result it leaves
ParseReviewCall ==
    /\ IsPending("parse_review")
    /\ call' = Put(call, "out", [content |-> ExtractJson(call.response),
                                 review_result |-> ParseReview(call.response)])
    /\ UNCHANGED <<manager, run_vars>>

LibInit ==
    /\ pc = "fetch_git_context"
    /\ state = initial_state
    /\ ran = <<>>
    /\ gate = "none"
    /\ reprompts = 0
    /\ fault = {}
    /\ reply = NoText
    /\ outcome = "running"
    /\ exit_code = NoCode
    /\ manager = <<>>
    /\ call \in {NoCall} \cup DetectCalls \cup ExecuteReviewCalls \cup GitCalls
               \cup { [op |-> "parse_args", argv |-> argv] : argv \in ArgvInputs }
               \cup { [op |-> "parse_review", response |-> r] : r \in ResponseInputs }
               \cup FetchCalls \cup UpdateCalls

LibNext ==
    \/ DetectSkills
    \/ GetMetadata
    \/ GetSystemPrompt
    \/ Detect
    \/ ExecuteReviewCall
    \/ GetDiff
    \/ GetChangedFiles
    \/ GetDiffStats
    \/ ParseArgs
    \/ ParseReviewCall
    \/ FetchGitContextCall
    \/ UpdateMoveToBackup
    \/ UpdateMoveIntoPlace
    \/ UpdateChmod
    \/ UpdateRemoveBackup
    \/ UpdateRollback
    \/ UpdateFinally

LibSpec == LibInit /\ [][LibNext]_vars

----------------------------------------------------------------------------
(* Properties *)

Error == Get(state, "error", None)
Entered(node) == InList(node, ran)
Terminated == pc \in {END, "exited"}

\* States handed to the routing functions: every error value, both approvals,
\* with the other fields as at the start of a run or as after a plan
ErrorValues == {None, "", ErrNotRepo, ErrPlan}
RoutingStates ==
    { Merge(initial_state, [error |-> e, user_approved |-> a, review_plan |-> plan]) :
        e \in ErrorValues, a \in BOOLEAN, plan \in {"", "PLAN"} }

\* An error field that holds a failure description (spec section 3: non-empty)
IsSet(e) == e \notin {None, ""}

\* C1: the routing after the approval gate is a function of error and
\* user_approved alone: termination when error is set, termination when it is
\* unset and user_approved is false, execute_review when it is unset and
\* user_approved is true; and in every run the review stage is entered only after
\* the approval gate returned true in that run.
C1_RoutingAfterApproval ==
    /\ \A st \in RoutingStates :
          should_continue(st) =
              IF IsSet(st.error) THEN END
              ELSE IF st.user_approved THEN "execute_review" ELSE END
    /\ \A s1, s2 \in RoutingStates :
          (s1.error = s2.error /\ s1.user_approved = s2.user_approved)
              => should_continue(s1) = should_continue(s2)
    /\ (pc = "execute_review" \/ Entered("execute_review")) => gate = "true"
    /\ gate = "false" => (Terminated /\ ~Entered("execute_review"))
    /\ gate = "true" => pc \in {"execute_review", "generate_report", END, "exited"}

C1_Witness == pc = "generate_report" /\ Entered("execute_review") /\ gate = "true"

\* C2: when the fetch stage sets error the run terminates with no other stage
\* entered; when the plan stage sets error it terminates with neither the approval
\* gate nor a later stage entered; error is still set in the final state.
C2_ErrorShortCircuit ==
    /\ "fetch" \in fault =>
          /\ ran = <<"fetch_git_context">>
          /\ Terminated
          /\ IsSet(Error)
    /\ "plan_llm" \in fault =>
          /\ ran = <<"fetch_git_context", "generate_plan">>
          /\ Terminated
          /\ IsSet(Error)

C2_Witness == "plan_llm" \in fault /\ pc = "exited" /\ outcome = "returned"

\* C3: once the review stage has run, the report stage is the next node, whether
\* or not the review stage recorded a failure in error, and it is entered by the
\* next step of the workflow (only a user interrupt can come between).
C3_ReportFollowsReview ==
    [][ /\ (pc = "execute_review" /\ outcome' # "interrupted")
            => (pc' = "generate_report" /\ ~Entered("generate_report"))
        /\ (pc = "generate_report" /\ outcome' # "interrupted")
            => ran' = Append(ran, "generate_report") ]_vars

C3_Witness ==
    /\ "review_llm" \in fault
    /\ IsSet(Error)
    /\ Entered("generate_report")
    /\ ran[Len(ran) - 1] = "execute_review"

\* C4 as claimed: a failed model call in the plan stage keeps the approval gate from
\* running, and a failed model call in the review stage keeps the report stage
\* from running.
C4_Claimed ==
    /\ "plan_llm" \in fault => ~Entered("await_approval")
    /\ "review_llm" \in fault => ~Entered("generate_report")

\* C4 (amended): a failed model call in the plan stage is recorded in error and
\* the run terminates before the approval gate; a failed model call in the review
\* stage is recorded in error, the report stage still runs next, and the run then
\* returns with error set (exit code 1).
C4_ModelCallFailure ==
    /\ "plan_llm" \in fault =>
          /\ Error = ErrPlan
          /\ Terminated
          /\ ~Entered("await_approval")
    /\ "review_llm" \in fault =>
          /\ Error = ErrReview
          /\ pc \in {"generate_report", END, "exited"}
          /\ (pc = END \/ outcome = "returned") => Entered("generate_report")
          /\ outcome # "exception"
          /\ outcome = "returned" => exit_code = 1

C4_Witness ==
    /\ "review_llm" \in fault
    /\ outcome = "returned"
    /\ Entered("generate_report")
    /\ exit_code = 1

\* C5: the exit code is 0 when the workflow returns without error, 1 when it
\* returns with error set, 1 when the user interrupts the run and 1 when an
\* exception escapes the workflow; there is no exit code before the process exits.
C5_ExitCode ==
    /\ pc # "exited" => (exit_code = NoCode /\ outcome = "running")
    /\ pc = "exited" =>
          /\ outcome \in {"returned", "interrupted", "exception"}
          /\ (outcome = "returned" /\ ~IsSet(Error)) => exit_code = 0
          /\ (outcome = "returned" /\ IsSet(Error)) => exit_code = 1
          /\ outcome = "interrupted" => exit_code = 1
          /\ outcome = "exception" => exit_code = 1

C5_Witness == pc = "exited" /\ outcome = "returned" /\ IsSet(Error) /\ exit_code = 1

\* The review stage returned a result: it ran and left error unset
ReviewDone == Entered("execute_review") /\ ~IsSet(Error) /\ pc # "execute_review"
Result == state["review_result"]
Stats == Get(state, "diff_stats", EmptyDict)

FallbackRecord(response) ==
    JObj([error |-> JStr("Invalid JSON response from LLM"),
          raw_response |-> [kind |-> "text", tokens |-> response]])

\* C6: a review response that is no valid JSON does not fail the review stage:
\* the parse step yields the record {error: "Invalid JSON response from LLM",
\* raw_response: the response text as received}, which review_result keeps (the
\* later steps only add test_analysis and metadata), error stays unset, the
\* report stage is reached and returns, and the process exits with code 0.
C6_InvalidJsonFallback ==
    "invalid_json" \in fault =>
        /\ ParseReview(reply.text) = FallbackRecord(reply.text)
        /\ ~IsSet(Error)
        /\ IsDict(Result)
        /\ DOMAIN Result.fields \subseteq {"error", "raw_response", "test_analysis", "metadata"}
        /\ Result.fields["error"] = JStr("Invalid JSON response from LLM")
        /\ Result.fields["raw_response"] = [kind |-> "text", tokens |-> reply.text]
        /\ pc \in {"generate_report", END, "exited"}
        /\ outcome # "exception"
        /\ (pc = END \/ outcome = "returned") => Entered("generate_report")
        /\ outcome = "returned" => exit_code = 0

C6_Witness ==
    /\ "invalid_json" \in fault
    /\ reply.text = <<"ws", "prose", "nl">>
    /\ Entered("generate_report")
    /\ outcome = "returned"
    /\ exit_code = 0

\* C7 as claimed: every review_result the review stage produces has a
\* test_analysis whose production_lines, test_lines, ratio and verdict are the
\* values computed from diff_stats, whatever the model answered.
C7_Claimed ==
    ReviewDone =>
        /\ IsDict(Result)
        /\ "test_analysis" \in DOMAIN Result.fields
        /\ IsDict(Result.fields["test_analysis"])
        /\ LET ta == Result.fields["test_analysis"].fields
               prod == ProdLines(Stats)
               test == TestLines(Stats)
           IN /\ {"production_lines", "test_lines", "ratio", "verdict"} \subseteq DOMAIN ta
              /\ ta["production_lines"] = JInt(prod)
              /\ ta["test_lines"] = JInt(test)
              /\ ta["ratio"] = Ratio(prod, test)
              /\ ta["verdict"] = JStr(Verdict(Ratio(prod, test), prod, test))

\* The review stage merged its scores into the result
Scored ==
    /\ ReviewDone
    /\ IsDict(Result)
    /\ "test_analysis" \in DOMAIN Result.fields
    /\ IsDict(Result.fields["test_analysis"])
Analysis == Result.fields["test_analysis"].fields

\* The thresholds of the spec on the counts themselves, both-zero test first:
\* ratio >= 1.0, ratio >= 0.5 and ratio > 0 for ratio = test/prod, and for the
\* sentinel 100.0 of a test-only change
SpecVerdict(prod, test) ==
    IF prod = 0 /\ test = 0 THEN "N/A"
    ELSE IF (prod > 0 /\ test >= prod) \/ (prod = 0 /\ test > 0) THEN "EXCELLENT"
    ELSE IF (prod > 0 /\ 2 * test >= prod) THEN "GOOD"
    ELSE IF test > 0 THEN "ACCEPTABLE"
    ELSE "MISSING"

\* C8: the verdict is "N/A" when both counts are 0, otherwise "EXCELLENT" when
\* ratio >= 1.0, otherwise "GOOD" when ratio >= 0.5, otherwise "ACCEPTABLE" when
\* ratio > 0, otherwise "MISSING": the code's order of tests gives the verdict of
\* the spec's order on every diff_stats.
C8_Verdict ==
    Scored =>
        /\ Analysis["verdict"].kind = "str"
        /\ Analysis["verdict"].text =
              SpecVerdict(Analysis["production_lines"].int, Analysis["test_lines"].int)

C8_Witness ==
    /\ Scored
    /\ Analysis["verdict"] = JStr("N/A")
    /\ DOMAIN Stats # {}

\* C9: the ratio is test_lines / production_lines when production_lines > 0, the
\* sentinel 100.0 when production_lines = 0 and test_lines > 0 (and the verdict is
\* then "EXCELLENT"), and 0 when both counts are 0.
C9_Ratio ==
    Scored =>
        LET prod == Analysis["production_lines"].int
            test == Analysis["test_lines"].int
            ratio == Analysis["ratio"]
        IN /\ ratio.kind = "float"
           /\ ratio.den > 0
           /\ GCD(ratio.num, ratio.den) = 1
           /\ prod > 0 => ratio.num * prod = test * ratio.den
           /\ (prod = 0 /\ test > 0) =>
                 (ratio.num = 100 /\ ratio.den = 1 /\ Analysis["verdict"] = JStr("EXCELLENT"))
           /\ (prod = 0 /\ test = 0) => (ratio.num = 0 /\ ratio.den = 1)

C9_Witness ==
    /\ Scored
    /\ Analysis["production_lines"] = JInt(0)
    /\ Analysis["test_lines"].int > 0
    /\ Analysis["ratio"].num = 100

\* The paths of PathList whose lower-cased text contains "test":
\* "latest.php" and "tEsT_a.py"
TestPaths == {PathList[2], PathList[3]}

\* C10: each file's added count goes to test_lines exactly when its lower-cased
\* path contains "test" and to production_lines otherwise, so the two counts add
\* up to the sum of all added counts; deleted counts contribute nothing.
C10_Partition ==
    Scored =>
        LET prod == Analysis["production_lines"].int
            test == Analysis["test_lines"].int
            files == DOMAIN Stats
        IN /\ test = SumAdded(Stats, files \cap TestPaths)
           /\ prod = SumAdded(Stats, files \ TestPaths)
           /\ prod + test = SumAdded(Stats, files)
           /\ \A f \in files : f \in TestPaths <=> Contains(LowerText(f), TestWord)

C10_Witness ==
    /\ Scored
    /\ DOMAIN Stats = {PathList[1], PathList[3]}
    /\ Stats[PathList[1]] = <<2, 1>>
    /\ Stats[PathList[3]] = <<3, 1>>
    /\ Analysis["production_lines"] = JInt(2)
    /\ Analysis["test_lines"] = JInt(3)

\* The line as the gate compares it: blanks around it removed, lower case
Normalized(line) ==
    LET inner == { i \in 1..Len(line) : line[i] # " " }
        first == CHOOSE i \in inner : \A j \in inner : i <= j
        last == CHOOSE i \in inner : \A j \in inner : j <= i
    IN IF inner = {} THEN <<>> ELSE LowerText(SubSeq(line, first, last))
Affirmative == { <<"y">>, <<"y", "e", "s">> }
Negative == { <<"n">>, <<"n", "o">> }

StageOrder == <<"fetch_git_context", "generate_plan", "await_approval",
                "execute_review", "generate_report">>
Rank(p) ==
    IF p \in Nodes THEN CHOOSE i \in 1..Len(StageOrder) : StageOrder[i] = p
    ELSE IF p = END THEN Len(StageOrder) + 1
    ELSE Len(StageOrder) + 2

\* C19: the stages entered in a run are, in order, a prefix of fetch, plan,
\* approval, review, report; the run only moves forward, to the next stage
\* or to its end, so that no stage is entered again or retried; a stage other
\* than the approval gate is left by the step that runs it; and with a gate
\* that returns every run ends, after at most five stage executions.
C19_StageOrder ==
    /\ [](ran = SubSeq(StageOrder, 1, Len(ran)))
    /\ [](pc \in Nodes =>
            \/ Len(ran) = Rank(pc) - 1
            \/ pc = "await_approval" /\ reprompts > 0 /\ Len(ran) = Rank(pc))
    /\ [][pc' # pc =>
            /\ Rank(pc') > Rank(pc)
            /\ pc' \in Nodes => Rank(pc') = Rank(pc) + 1]_vars
    /\ [][(pc \in Nodes \ {"await_approval"}) => pc' # pc]_vars
    /\ <>(pc = "exited")

\* A run that went through the five stages and returned
C19_Witness ==
    /\ pc = "exited"
    /\ outcome = "returned"
    /\ ran = StageOrder

\* The business fields a state holds
BusinessFields == {"diff_content", "changed_files", "diff_stats", "review_plan",
                   "user_approved", "review_result", "active_skills"}
Business(st) == [k \in BusinessFields \cap DOMAIN st |-> st[k]]

\* C20: from a state whose error field is set, no step of the run changes
\* diff_content, changed_files, diff_stats, review_plan, user_approved,
\* review_result or active_skills, and the error field keeps its value until
\* the run has ended.
C20_ErrorFreezesState ==
    [][IsSet(Get(state, "error", None)) =>
          /\ Business(state') = Business(state)
          /\ Get(state', "error", None) = Get(state, "error", None)]_vars

\* The report stage ran on a state whose error the review stage had set
C20_Witness ==
    /\ IsSet(Error)
    /\ Entered("execute_review")
    /\ Entered("generate_report")
    /\ pc = END

\* C21 as claimed: no failure raised inside a stage leaves the stage: no run
\* ends by an exception that reached the controller and, through it, the CLI.
C21_Claimed == outcome # "exception"

\* The review result as the merge of the scores found it: the parsed response,
\* with the metadata of the active skills when there are any
BeforeMerge ==
    LET parsed == ParseReview(reply.text)
    IN IF state["active_skills"] # <<>> /\ IsDict(parsed)
       THEN JObj(Put(parsed.fields, "metadata", SkillMetadata(state["active_skills"], NoText)))
       ELSE parsed
ScoreFields == {"production_lines", "test_lines", "ratio", "verdict"}

\* C22: merging the computed scores into a review result (an object whose
\* test_analysis is an object or absent) overwrites exactly production_lines,
\* test_lines, ratio and verdict inside test_analysis: every other field the
\* model supplied under test_analysis keeps its value, every field outside
\* test_analysis is unchanged, and with no test_analysis supplied the object
\* is created holding exactly the four computed fields.
C22_ScoreMergeFrame ==
    (/\ ReviewDone
     /\ IsDict(BeforeMerge)
     /\ IsDict(Get(BeforeMerge.fields, "test_analysis", JObj(EmptyDict)))) =>
        LET supplied == Get(BeforeMerge.fields, "test_analysis", JObj(EmptyDict)).fields
            prod == ProdLines(Stats)
            test == TestLines(Stats)
        IN /\ IsDict(Result)
           /\ DOMAIN Result.fields = DOMAIN BeforeMerge.fields \cup {"test_analysis"}
           /\ \A k \in DOMAIN BeforeMerge.fields \ {"test_analysis"} :
                 Result.fields[k] = BeforeMerge.fields[k]
           /\ IsDict(Result.fields["test_analysis"])
           /\ DOMAIN Analysis = DOMAIN supplied \cup ScoreFields
           /\ \A k \in DOMAIN supplied \ ScoreFields : Analysis[k] = supplied[k]
           /\ Analysis["production_lines"] = JInt(prod)
           /\ Analysis["test_lines"] = JInt(test)
           /\ Analysis["ratio"] = Ratio(prod, test)
           /\ Analysis["verdict"] = JStr(Verdict(Ratio(prod, test), prod, test))
           /\ ("test_analysis" \notin DOMAIN BeforeMerge.fields) => DOMAIN Analysis = ScoreFields

\* The model supplied conflicting scores and notes: the scores are replaced,
\* the notes and the overall verdict stay
C22_Witness ==
    /\ ReviewDone
    /\ reply.text = <<"{full}">>
    /\ Analysis["notes"] = JStr("model notes")
    /\ Analysis["production_lines"] # JInt(99)
    /\ Result.fields["overall"] = JObj([verdict |-> JStr("APPROVE")])

\* C27: once the user has rejected the plan the pipeline is at its end: the
\* review and report stages are never entered, review_result is still the
\* empty record of the initial state, error is unset, and the process exits
\* with code 0, the code of a run whose review completed without error.
C27_RejectionEndsRun ==
    /\ [](gate = "false" =>
            /\ pc \in {END, "exited"}
            /\ ~Entered("execute_review")
            /\ ~Entered("generate_report")
            /\ state["review_result"] = JObj(EmptyDict)
            /\ state["review_result"] = initial_state["review_result"]
            /\ ~IsSet(Error)
            /\ outcome \in {"running", "returned"}
            /\ (outcome = "returned") => exit_code = 0)
    /\ [](outcome = "returned" /\ Entered("generate_report") /\ ~IsSet(Error) => exit_code = 0)
    /\ (gate = "false") ~> (pc = "exited" /\ outcome = "returned" /\ exit_code = 0)

\* A run that the user ended with "n" has exited with code 0 and no result
C27_Witness ==
    /\ gate = "false"
    /\ pc = "exited"
    /\ exit_code = 0
    /\ ran = <<"fetch_git_context", "generate_plan", "await_approval">>
    /\ state["review_result"] = JObj(EmptyDict)

----------------------------------------------------------------------------
(* Properties of the library calls *)

\* An override that names something: a non-empty text
Supplied(manual) == "text" \in DOMAIN manual /\ Len(manual.text) > 0
SameIgnoringCase(a, b) == LowerText(a) = LowerText(b)

\* C11: after detect_skills the skill is active if and only if either an
\* override is supplied and equals the skill's name ignoring case, whatever
\* detect says, or no override is supplied and detect returns true; an
\* override naming something else leaves the skill inactive even when detect
\* would return true.
C11_Activation ==
    call.op = "detect_skills" =>
        LET active == InList(LaravelName, call.out)
            detected == LaravelDetect(call.repo_files, call.changed_files)
            matches == Supplied(call.manual_skill)
                       /\ SameIgnoringCase(call.manual_skill.text, LaravelNameText)
        IN /\ active <=> (matches \/ (~Supplied(call.manual_skill) /\ detected))
           /\ (Supplied(call.manual_skill) /\ ~matches) => ~active
           /\ call.out = manager

\* An override in another letter case activates the skill in a repository
\* where detect returns false
C11_Witness ==
    /\ call.op = "detect_skills"
    /\ Supplied(call.manual_skill)
    /\ call.manual_skill.text # LaravelNameText
    /\ ~LaravelDetect(call.repo_files, call.changed_files)
    /\ call.out = <<LaravelName>>

\* The metadata record the claim describes for a list of active skill names
ClaimedMetadata(names, manual) ==
    JObj([framework_detected |-> JStr(Head(names)),
          skills_applied |-> JList([i \in 1..Len(names) |-> JStr(names[i])]),
          detection_method |-> JStr(IF Supplied(manual) THEN "manual" ELSE "automatic"),
          skill_details |-> JList([i \in 1..Len(names) |-> LaravelMetadata])])

\* C12: get_metadata returns no value exactly when no skill is active, and
\* otherwise the record with framework_detected = the first active skill,
\* skills_applied = the active names in registry order, detection_method =
\* "manual" when an override was given and "automatic" otherwise, and
\* skill_details = the metadata of each active skill; a review stage that
\* produces a result puts that record under "metadata" exactly when a skill is
\* active, and leaves the field out otherwise.
C12_Metadata ==
    /\ call.op = "get_metadata" =>
          /\ (call.out = JNone) <=> (call.active_skills = <<>>)
          /\ call.active_skills # <<>> =>
                call.out = ClaimedMetadata(call.active_skills, call.manual_skill)
    /\ (Done("execute_review") /\ ~IsSet(Get(call.out, "error", None))) =>
          LET manual == Get(call.st, "manual_framework", NoText)
              names == detect_skills(manual, call.repo_files, call.st["changed_files"])
              result == call.out["review_result"]
          IN /\ call.out["active_skills"] = names
             /\ IsDict(result) =>
                   /\ ("metadata" \in DOMAIN result.fields) <=> (names # <<>>)
                   /\ names # <<>> => result.fields["metadata"] = ClaimedMetadata(names, manual)
             /\ ~IsDict(result) => names = <<>>

\* A review stage run with a matching override in a repository where detect
\* is false attaches metadata whose detection method is "manual"
C12_Witness ==
    /\ Done("execute_review")
    /\ IsDict(call.out["review_result"])
    /\ "metadata" \in DOMAIN call.out["review_result"].fields
    /\ call.out["review_result"].fields["metadata"].fields["detection_method"] = JStr("manual")
    /\ ~LaravelDetect(call.repo_files, call.st["changed_files"])

\* Text of a path, and the suffix and prefixes the claim names
PhpSuffix == <<".", "p", "h", "p">>
RootMarkers == { <<"a", "r", "t", "i", "s", "a", "n">>,
                 <<"c", "o", "m", "p", "o", "s", "e", "r", ".", "j", "s", "o", "n">> }
MarkerPrefixes == { <<"a", "p", "p", "/">>, <<"r", "o", "u", "t", "e", "s", "/">>,
                    <<"c", "o", "n", "f", "i", "g", "/">>,
                    <<"d", "a", "t", "a", "b", "a", "s", "e", "/">> }
HasPhpChange(changed) ==
    \E i \in 1..Len(changed) :
        /\ Len(changed[i]) >= 4
        /\ \A k \in 1..4 : changed[i][Len(changed[i]) - 4 + k] = PhpSuffix[k]
HasMarker(listing) ==
    \E i \in 1..Len(listing) :
        \/ listing[i] \in RootMarkers
        \/ \E m \in MarkerPrefixes :
              Len(listing[i]) >= Len(m) /\ \A k \in 1..Len(m) : listing[i][k] = m[k]

\* C13: the Laravel detector returns true if and only if some changed path
\* ends with ".php" and the repository listing holds the root file "artisan"
\* or "composer.json" or a path starting with "app/", "routes/", "config/" or
\* "database/"; without a PHP change it is false whatever the repository
\* holds, and with PHP changes but no marker it is false.
C13_LaravelDetect ==
    Done("detect") =>
        /\ call.out <=> (HasPhpChange(call.changed_files) /\ HasMarker(call.file_paths))
        /\ ~HasPhpChange(call.changed_files) => ~call.out
        /\ (HasPhpChange(call.changed_files) /\ ~HasMarker(call.file_paths)) => ~call.out

\* The detector answers false in a Laravel repository because no changed
\* file is PHP
C13_Witness ==
    /\ Done("detect")
    /\ HasMarker(call.file_paths)
    /\ call.changed_files # <<>>
    /\ ~HasPhpChange(call.changed_files)
    /\ ~call.out

GitOps == {"get_diff", "get_changed_files", "get_diff_stats"}
DiffCmds == {GitCmd.get_diff, GitCmd.get_changed_files, GitCmd.get_diff_stats}
Fails(res, msg) == ~res.ok /\ res.exc = "GitError" /\ res.msg = msg

\* C14: each of get_diff, get_changed_files and get_diff_stats checks the
\* repository, then the base branch, then the feature branch, and stops at the
\* first check that fails with that check's error: outside a repository no
\* branch is looked up, a missing base branch is reported whether or not the
\* feature branch exists and the feature branch is not looked up, and the
\* diff command is issued only after all three checks passed.
C14_ValidationOrder ==
    (call.op \in GitOps /\ "out" \in DOMAIN call) =>
        LET env == call.env
            cmds == call.commands
        IN /\ ~env.repo => Fails(call.out, ErrNotRepo) /\ cmds = <<GitCmd.git_dir>>
           /\ (env.repo /\ ~env.base) =>
                 Fails(call.out, ErrNoBase) /\ cmds = <<GitCmd.git_dir, GitCmd.verify_base>>
           /\ (env.repo /\ env.base /\ ~env.branch) =>
                 /\ Fails(call.out, ErrNoBranch)
                 /\ cmds = <<GitCmd.git_dir, GitCmd.verify_base, GitCmd.verify_branch>>
           /\ (\E i \in 1..Len(cmds) : cmds[i] \in DiffCmds) =>
                 /\ env.repo /\ env.base /\ env.branch
                 /\ Len(cmds) = 4
                 /\ SubSeq(cmds, 1, 3) = <<GitCmd.git_dir, GitCmd.verify_base, GitCmd.verify_branch>>
           /\ (env.repo /\ env.base /\ env.branch) => cmds[Len(cmds)] \in DiffCmds

\* get_diff_stats with both branches missing: the error names the base branch
C14_Witness ==
    /\ Done("get_diff_stats")
    /\ call.env.repo /\ ~call.env.base /\ ~call.env.branch
    /\ Fails(call.out, ErrNoBase)

\* A name that is left of a line once the blanks around it are removed
Trimmed(row) ==
    LET inner == { i \in 1..Len(row) : row[i] # " " }
    IN IF inner = {} THEN <<>>
       ELSE SubSeq(row, CHOOSE i \in inner : \A j \in inner : i <= j,
                        CHOOSE i \in inner : \A j \in inner : j <= i)

CountValue(field) ==
    CASE field = <<"0">> -> 0
      [] field = <<"1">> -> 1
      [] field = <<"1", "2">> -> 12
BinaryMark == <<"-">>
NumericFields == { <<"0">>, <<"1">>, <<"1", "2">> }
ClaimedCount(field) == IF field = BinaryMark THEN 0 ELSE CountValue(field)
\* A line that yields an entry: three fields or more, each count a number or
\* the binary mark
Yields(line) ==
    /\ Len(line) >= 3
    /\ line[1] \in NumericFields \cup {BinaryMark}
    /\ line[2] \in NumericFields \cup {BinaryMark}

\* C16: get_diff_stats does not fail on what the numstat output holds: a
\* count printed as "-" counts as 0, a line with fewer than three
\* tab-separated fields or with another non-numeric count adds no entry, every
\* other line yields path -> (added, deleted), a later line for the same path
\* replacing an earlier one, and an empty output yields the empty mapping.
C16_DiffStatsParsing ==
    (Done("get_diff_stats") /\ "stdout" \in DOMAIN call.env) =>
        LET rows == call.lines
            kept == { i \in 1..Len(rows) : Yields(rows[i]) }
        IN /\ call.out.ok
           /\ DOMAIN call.out.value = { rows[i][3] : i \in kept }
           /\ \A i \in kept :
                 (\A j \in kept : j > i => rows[j][3] # rows[i][3]) =>
                    call.out.value[rows[i][3]] =
                        <<ClaimedCount(rows[i][1]), ClaimedCount(rows[i][2])>>
           /\ rows = <<>> => call.out.value = EmptyDict

\* A binary file beside a text file: the binary one has the entry (0, 0)
C16_Witness ==
    /\ Done("get_diff_stats")
    /\ Len(call.lines) = 2
    /\ call.lines[2][1] = BinaryMark /\ call.lines[2][2] = BinaryMark
    /\ Len(call.lines[2]) = 3
    /\ call.lines[2][3] # call.lines[1][3]
    /\ call.out.ok
    /\ call.out.value[call.lines[2][3]] = <<0, 0>>
    /\ call.out.value[call.lines[1][3]] = <<1, 0>>

\* The value an option of the command line gives, NoText without the option
OptionValue(argv, prefix) ==
    LET given == { i \in 3..Len(argv) : StartsWith(argv[i], prefix) }
    IN IF given = {} THEN NoText
       ELSE LET i == CHOOSE k \in given : \A j \in given : j <= k
            IN SomeText(SubSeq(argv[i], Len(prefix) + 1, Len(argv[i])))
BaseOption == <<"-", "-", "b", "a", "s", "e", "=">>
SkillOption == <<"-", "-", "s", "k", "i", "l", "l", "=">>
\* A command line made of a branch followed by --base= and --skill= options
BranchAndOptions(argv) ==
    /\ Len(argv) >= 2
    /\ ~StartsWith(argv[2], <<"-">>)
    /\ argv[2] # <<"u", "p", "d", "a", "t", "e">>
    /\ \A i \in 3..Len(argv) :
          StartsWith(argv[i], BaseOption) \/ StartsWith(argv[i], SkillOption)

\* C18 as claimed: for a branch followed by --base= and --skill= options,
\* parsing returns the branch as given, the base branch of --base= or "main"
\* without it, and the skill of --skill= or none without it (a result with no
\* skill component counts as none).
C18_Claimed ==
    (Done("parse_args") /\ BranchAndOptions(call.argv)) =>
        /\ "value" \in DOMAIN call.out
        /\ call.out.value[1] = call.argv[2]
        /\ call.out.value[2] =
              (IF OptionValue(call.argv, BaseOption) = NoText THEN <<"m", "a", "i", "n">>
               ELSE OptionValue(call.argv, BaseOption).text)
        /\ OptionValue(call.argv, SkillOption) =
              (IF Len(call.out.value) >= 3 THEN call.out.value[3] ELSE NoText)

\* C23: a failure inside the scoring step never aborts the review: whenever
\* the model call and the steps before the scoring succeeded, the review
\* stage returns with error unset, and when the scoring step raised (the
\* parsed result is no object, so reading its test_analysis fails) the
\* review_result is the parsed result, without the score override.
C23_ScoringNeverAborts ==
    (Done("execute_review") /\ call.llm_res.ok) =>
        LET manual == Get(call.st, "manual_framework", NoText)
            names == ActiveSkills(manual, call.repo_files, call.st["changed_files"])
            parsed == ParseReview(call.llm_res.value)
        IN (names = <<>> \/ IsDict(parsed)) =>
              /\ call.out["error"] = None
              /\ ~IsDict(parsed) => call.out["review_result"] = parsed

\* The model answered the JSON list []: reading its test_analysis raises, the
\* stage returns the list and leaves error unset
C23_Witness ==
    /\ Done("execute_review")
    /\ call.llm_res.ok
    /\ call.llm_res.value = <<"[]">>
    /\ call.out["review_result"] = DocList
    /\ call.out["error"] = None

\* The active list the claim describes for one call of detect_skills
ClaimedActive(manual, repo_files, changed_files) ==
    IF \/ Supplied(manual) /\ SameIgnoringCase(manual.text, LaravelNameText)
       \/ ~Supplied(manual) /\ LaravelDetect(repo_files, changed_files)
    THEN <<LaravelName>>
    ELSE <<>>
SkillOps == {"detect_skills", "get_metadata", "get_system_prompt"}

\* C24: a new SkillManager has no active skill and its system prompt is the
\* base prompt alone; every detect_skills leaves and returns the list that its
\* own arguments determine, whatever the calls before it produced (nothing
\* accumulates, and a second call with the same arguments changes nothing);
\* get_system_prompt and get_metadata change nothing and answer from the list
\* the latest detect_skills left.
C24_DetectSkillsLatestOnly ==
    /\ (call.op \in SkillOps \cup {"none"}) =>
           (manager = <<>> /\ get_system_prompt(manager) = <<"XP_SYSTEM_PROMPT">>)
    /\ [][(call'.op \in SkillOps) =>
             /\ (call'.op = "detect_skills") =>
                   /\ manager' = ClaimedActive(call'.manual_skill, call'.repo_files,
                                               call'.changed_files)
                   /\ call'.out = manager'
                   /\ (/\ call.op = "detect_skills"
                       /\ call.manual_skill = call'.manual_skill
                       /\ call.repo_files = call'.repo_files
                       /\ call.changed_files = call'.changed_files) => manager' = manager
             /\ (call'.op = "get_system_prompt") =>
                   /\ manager' = manager
                   /\ call'.out = IF manager = <<>> THEN <<"XP_SYSTEM_PROMPT">>
                                  ELSE <<"XP_SYSTEM_PROMPT", "nl", "nl", "LARAVEL_PROMPT_ADDON">>
             /\ (call'.op = "get_metadata") =>
                   /\ manager' = manager
                   /\ call'.out = IF manager = <<>> THEN JNone
                                  ELSE ClaimedMetadata(manager, call'.manual_skill)]_vars

\* The system prompt asked for after a detect_skills that activated the skill
\* carries the skill's addon once
C24_Witness ==
    /\ call.op = "get_system_prompt"
    /\ manager = <<LaravelName>>
    /\ call.out = <<"XP_SYSTEM_PROMPT", "nl", "nl", "LARAVEL_PROMPT_ADDON">>

\* The lines of a text that do not start with a fence marker
NonFenceLines(text) ==
    SelectSeq(SplitLines(text), LAMBDA line : ~(line # <<>> /\ Head(line) = Fence))
LeadingFence(text) == Strip(text) # <<>> /\ Head(Strip(text)) = Fence

\* JSON objects as response text, with the value each one denotes
ObjectTexts == {
    [text |-> <<"{}">>, value |-> DocEmpty],
    [text |-> <<"{full}">>, value |-> DocFull],
    [text |-> <<"{plain}">>, value |-> DocNoAnalysis],
    [text |-> <<"{", "nl", "ws", "}">>, value |-> DocEmpty] }

\* C25: when the whitespace-stripped response starts with a fence marker,
\* every line starting with a fence marker is dropped and the remaining
\* lines, joined by newlines and stripped, are what is parsed; for a response
\* made of an opening fence line (with or without the json tag), a JSON
\* object and a closing fence line, the extracted text is exactly the JSON
\* object and the parse yields its value.
C25_FencedExtraction ==
    Done("parse_review") =>
        /\ LeadingFence(call.response) =>
              LET remaining == Strip(JoinLines(NonFenceLines(Strip(call.response))))
              IN /\ call.out.content = remaining
                 /\ call.out.review_result =
                       IF json_loads(remaining).ok THEN json_loads(remaining).value
                       ELSE FallbackRecord(call.response)
        /\ \A tag \in {<<>>, <<"json">>}, object \in ObjectTexts :
              (call.response = <<Fence>> \o tag \o <<"nl">> \o object.text \o <<"nl", Fence>>) =>
                  /\ call.out.content = object.text
                  /\ call.out.review_result = object.value

\* A fenced object written over two lines is recovered with its newline
C25_Witness ==
    /\ Done("parse_review")
    /\ call.response = <<Fence, "json", "nl", "{", "nl", "ws", "}", "nl", Fence>>
    /\ call.out.content = <<"{", "nl", "ws", "}">>
    /\ call.out.review_result = DocEmpty

\* C26: on a text with no leading fence marker the extraction is the
\* whitespace strip alone: the lines are not scanned, a text that carries no
\* surrounding whitespace comes back as it is, and the extraction applied to
\* its own output returns that output.
C26_BareJsonIdempotent ==
    (Done("parse_review") /\ ~LeadingFence(call.response)) =>
        /\ call.out.content = Strip(call.response)
        /\ (Strip(call.response) = call.response) => call.out.content = call.response
        /\ ExtractJson(call.out.content) = call.out.content

\* A bare JSON object is handed to the parser as it is
C26_Witness ==
    /\ Done("parse_review")
    /\ call.response = <<"{full}">>
    /\ call.out.content = <<"{full}">>
    /\ ExtractJson(call.out.content) = <<"{full}">>
    /\ call.out.review_result = DocFull

\* A fence marker stands somewhere in the text
HasFence(text) == \E i \in 1..Len(text) : text[i] = Fence

\* C28: the flag in_json has no effect on the scan: started with either value
\* it retains exactly the lines that do not start with a fence marker, inside
\* or outside a block; so a fenced response in which a JSON document shares
\* the retained lines with other text (before the content, after the closing
\* fence, or in a further block) keeps all of it and ends in the
\* invalid-JSON fallback, and a response whose fence is not at the very start
\* is not stripped of anything but surrounding whitespace and ends in the
\* fallback too.
C28_FlagHasNoEffect ==
    Done("parse_review") =>
        LET content == Strip(call.response)
            lines == SplitLines(content)
            kept == NonFenceLines(content)
        IN /\ ScanLines(lines, TRUE) = ScanLines(lines, FALSE)
           /\ ScanLines(lines, FALSE) = kept
           /\ LeadingFence(call.response) => call.out.content = Strip(JoinLines(kept))
           /\ (/\ LeadingFence(call.response)
               /\ \E i, j \in 1..Len(kept) :
                     /\ i # j
                     /\ Len(Strip(kept[i])) = 1
                     /\ Strip(kept[i])[1] \in DOMAIN Docs
                     /\ Strip(kept[j]) # <<>>) =>
                 call.out.review_result = FallbackRecord(call.response)
           /\ (~LeadingFence(call.response) /\ HasFence(call.response)) =>
                 /\ call.out.content = content
                 /\ HasFence(call.out.content)
                 /\ call.out.review_result = FallbackRecord(call.response)

\* Prose after the closing fence is kept next to the object, and the parse
\* falls back
C28_Witness ==
    /\ Done("parse_review")
    /\ call.response = <<Fence, "json", "nl", "{}", "nl", Fence, "nl", "prose">>
    /\ call.out.content = <<"{}", "nl", "prose">>
    /\ call.out.review_result = FallbackRecord(call.response)

FetchFields == {"diff_content", "changed_files", "diff_stats"}

\* C29: the fetch stage is atomic: when any of its three queries fails the
\* state it returns differs from the state it was given in the error field
\* only, whatever the queries before the failing one returned; diff_content,
\* changed_files and diff_stats are set, together and with error cleared,
\* only when all three queries succeed.
C29_FetchAtomic ==
    Done("fetch_git_context") =>
        LET all_ok == call.diff_res.ok /\ call.files_res.ok /\ call.stats_res.ok
        IN /\ ~all_ok =>
                 /\ DOMAIN call.out = DOMAIN call.st \cup {"error"}
                 /\ \A k \in DOMAIN call.st \ {"error"} : call.out[k] = call.st[k]
                 /\ IsSet(call.out["error"])
           /\ all_ok =>
                 /\ call.out["diff_content"] = call.diff_res.value
                 /\ call.out["changed_files"] = call.files_res.value
                 /\ call.out["diff_stats"] = call.stats_res.value
                 /\ call.out["error"] = None
                 /\ \A k \in DOMAIN call.st \ (FetchFields \cup {"error"}) :
                       call.out[k] = call.st[k]
           /\ (\E k \in FetchFields : Get(call.out, k, None) # Get(call.st, k, None)) => all_ok

\* The diff and the file list were read and the statistics query failed: the
\* state keeps the empty context it came with and gains the error
C29_Witness ==
    /\ Done("fetch_git_context")
    /\ call.diff_res.ok
    /\ call.files_res.ok
    /\ ~call.stats_res.ok
    /\ call.st = initial_state
    /\ call.out = Put(initial_state, "error", ErrUnexpected)

\* C30 as claimed: whichever step of the install sequence fails, when
\* update_cli returns the install directory holds the complete previous
\* version or the complete new one, and the downloaded archive is removed.
C30_Claimed ==
    UpdateAt("returned") =>
        /\ call.install \in {Dir("old", InstallFiles), call.package}
        /\ ~call.download

====
